---- MODULE Spec2Model ----
(***************************************************************************)
(* A model of the kodek crate: the partially-initialized byte buffer       *)
(* (src/src/read_buf.rs), the decoding protocol (src/src/decoder.rs) and   *)
(* the concrete binary decoders (src/src/binary.rs).                       *)
(***************************************************************************)
EXTENDS Integers, Sequences, FiniteSets, TLC

VARIABLES
    build,      \* "debug" | "release": cfg!(debug_assertions) of the build
    status,     \* "ok" | "panic" | "ub": how the last ReadBuf call ended
    buf,        \* ReadBuf::buf, a sequence of cells (a byte or Uninit)
    filled,     \* ReadBuf::filled
    init,       \* ReadBuf::init
    rb_last,    \* the last ReadBuf call: operation, arguments and result
    dec,        \* the decoder: its kind and its byte_order field
    src,        \* the byte region handed to the decoder (`src: &mut &[u8]`)
    last,       \* the last decoder call: operation, what decode returned, what the call returned
    prev,       \* the decoder call before the last: operation and the tag of what it returned
    pending,    \* the bytes of the stream that have not reached the region yet
    fed,        \* how many bytes were appended to the region since the last decoder call
    target,     \* "little" | "big": cfg!(target_endian) of the build
    prim,       \* the last call of a Primitive, Endian, Size, Needed or Buffer function
    loop        \* a caller's decode_eof loop: the region it began with, the values so far, its end

rbvars == <<build, status, buf, filled, init, rb_last>>
decvars == <<dec, src, last, prev, pending, fed, target>>
vars == <<build, status, buf, filled, init, rb_last,
          dec, src, last, prev, pending, fed, target, prim, loop>>

-----------------------------------------------------------------------------
(* Bounds of the model. *)

\* largest capacity of the borrowed buffer
MaxCap == 3
\* longest slice handed to try_push_slice / push_slice: one more than fits
MaxSlice == MaxCap + 1
\* usize::MAX of the modelled target (a narrow usize keeps overflow reachable)
UsizeMax == 7

-----------------------------------------------------------------------------
(* ReadBuf: src/src/read_buf.rs *)

\* a MaybeUninit<u8> that holds no value
Uninit == -1
\* u8
Byte == 0..255
\* the byte values the buffer model writes and pushes
SampleBytes == {0, 255}
Cell == SampleBytes \cup {Uninit}
Usize == 0..UsizeMax

\* all sequences over S of length 0..n
SeqsUpTo(S, n) == UNION {[1..k -> S] : k \in 0..n}

\* the struct's fields, as the value the methods take as self
Self == [buf |-> buf, filled |-> filled, init |-> init]

capacity(self) == Len(self.buf)

\* the check of _assert_invariants: "Ok", or the message it hands to _assert
assert_invariants(self) ==
    IF self.init > Len(self.buf) THEN "InitTooLarge"
    ELSE IF self.filled > self.init THEN "FilledTooLarge"
    ELSE "Ok"

\* the outcome of a method: the fields after it and what it returned.
\* ret = "assert" means _assert was reached (panic in debug, UB in release),
\* ret = "panic" means an unwrap() of an Err.
Res(self, ret) == [self |-> self, ret |-> ret]

\* a trailing `self._assert_invariants()`
Checked(self, ret) ==
    IF assert_invariants(self) = "Ok" THEN Res(self, ret) ELSE Res(self, "assert")

RbErrors == {"FilledTooLarge", "InitTooLarge", "SliceTooLarge"}

\* Result::unwrap
unwrap(r) == IF r.ret \in RbErrors THEN [r EXCEPT !.ret = "panic"] ELSE r

\* clear that forgets the initialized length as well
clear_resets_init(self) ==
    IF assert_invariants(self) # "Ok" THEN Res(self, "assert")
    ELSE Res([self EXCEPT !.filled = 0, !.init = 0], "Ok")

clear(self) ==
    IF assert_invariants(self) # "Ok" THEN Res(self, "assert")
    ELSE Res([self EXCEPT !.filled = 0], "Ok")

set_filled_unchecked(self, k) == Checked([self EXCEPT !.filled = k], "Ok")

\* try_set_filled that compares with the capacity instead of init
try_set_filled_to_capacity(self, k) ==
    IF k <= Len(self.buf) THEN set_filled_unchecked(self, k)
    ELSE Res(self, "FilledTooLarge")

try_set_filled(self, k) ==
    IF k <= self.init THEN set_filled_unchecked(self, k)
    ELSE Res(self, "FilledTooLarge")

set_filled(self, k) == unwrap(try_set_filled(self, k))

\* usize::overflowing_add
overflowing_add(a, b) ==
    [sum |-> (a + b) % (UsizeMax + 1), overflow |-> a + b > UsizeMax]

advance_unchecked(self, n) ==
    LET o == overflowing_add(self.filled, n)
    IN  IF o.overflow THEN Res(self, "assert")
        ELSE set_filled_unchecked(self, o.sum)

\* try_advance with a wrapping instead of a checked addition
try_advance_wrapping(self, n) ==
    try_set_filled(self, (self.filled + n) % (UsizeMax + 1))

try_advance(self, n) ==
    IF self.filled + n <= UsizeMax
    THEN try_set_filled(self, self.filled + n)
    ELSE Res(self, "FilledTooLarge")

advance(self, n) == unwrap(try_advance(self, n))

\* assume_init that stores filled + n even when init is already beyond it
assume_init_always_stores(self, n) ==
    IF assert_invariants(self) # "Ok" THEN Res(self, "assert")
    ELSE Checked([self EXCEPT !.init = self.filled + n], "Ok")

\* assume_init that adds n to init
assume_init_adds(self, n) ==
    IF assert_invariants(self) # "Ok" THEN Res(self, "assert")
    ELSE Checked([self EXCEPT !.init = self.init + n], "Ok")

assume_init(self, n) ==
    IF assert_invariants(self) # "Ok" THEN Res(self, "assert")
    ELSE LET new == self.filled + n
         IN  Checked(IF new > self.init THEN [self EXCEPT !.init = new] ELSE self, "Ok")

\* slice::fill over the cells from..Len(b)
FillFrom(b, from, byte) ==
    [i \in 1..Len(b) |-> IF i > from THEN byte ELSE b[i]]

initialize_uninit(self, byte) ==
    IF assert_invariants(self) # "Ok" THEN Res(self, "assert")
    ELSE Res([self EXCEPT !.buf = FillFrom(self.buf, self.init, byte),
                          !.init = Len(self.buf)], "Ok")

\* initialize_unfilled that leaves the initialized scratch bytes as they are
initialize_unfilled_keeps_scratch(self, byte) ==
    IF assert_invariants(self) # "Ok" THEN Res(self, "assert")
    ELSE Checked([self EXCEPT !.buf = FillFrom(self.buf, self.init, byte),
                              !.init = Len(self.buf)], "Ok")

initialize_unfilled(self, byte) ==
    IF assert_invariants(self) # "Ok" THEN Res(self, "assert")
    ELSE Checked([self EXCEPT !.buf = FillFrom(self.buf, self.filled, byte),
                              !.init = Len(self.buf)], "Ok")

\* copy_from_nonoverlapping of slice into the cells at..at+Len(slice)
CopyAt(b, at, slice) ==
    [i \in 1..Len(b) |->
        IF i > at /\ i <= at + Len(slice) THEN slice[i - at] ELSE b[i]]

\* try_push_slice without `if self.init < end { self.init = end }`
try_push_slice_keeps_init(self, slice) ==
    IF assert_invariants(self) # "Ok" THEN Res(self, "assert")
    ELSE IF Len(slice) > Len(self.buf) - self.filled THEN Res(self, "SliceTooLarge")
    ELSE Checked([buf    |-> CopyAt(self.buf, self.filled, slice),
                  init   |-> self.init,
                  filled |-> self.filled + Len(slice)], "Ok")

try_push_slice(self, slice) ==
    IF assert_invariants(self) # "Ok" THEN Res(self, "assert")
    ELSE IF Len(slice) > Len(self.buf) - self.filled THEN Res(self, "SliceTooLarge")
    ELSE LET end == self.filled + Len(slice)
         IN  Checked([buf    |-> CopyAt(self.buf, self.filled, slice),
                      init   |-> IF self.init < end THEN end ELSE self.init,
                      filled |-> end], "Ok")

push_slice(self, slice) == unwrap(try_push_slice(self, slice))

-----------------------------------------------------------------------------
(* The ReadBuf state machine. *)

NoCall(op) == [op |-> op, arg |-> 0, slice |-> <<>>, ret |-> "Ok"]

\* ReadBuf::new over a fully initialized slice
New(b) ==
    /\ buf = b /\ filled = 0 /\ init = Len(b)

\* ReadBuf::from_uninit
FromUninit(b) ==
    /\ buf = b /\ filled = 0 /\ init = 0

\* no decoder call yet
NoDecode == [op |-> "new", inner |-> [tag |-> "None"], ret |-> [tag |-> "None"]]

\* what is kept of a call once another has followed it
Brief(call) == [op |-> call.op, tag |-> call.ret.tag]

\* no Primitive, Size or Needed function has been called
NoPrim == [fn |-> "none"]

\* no decode_eof loop is running
NoLoop == [input |-> <<>>, produced |-> 0, done |-> TRUE]

\* a program that constructs a ReadBuf (and an idle decoder beside it)
InitReadBuf ==
    /\ build \in {"debug", "release"}
    /\ status = "ok"
    /\ \/ \E b \in SeqsUpTo(SampleBytes, MaxCap) : New(b) /\ rb_last = NoCall("new")
       \/ \E b \in SeqsUpTo(Cell, MaxCap) : FromUninit(b) /\ rb_last = NoCall("from_uninit")
    /\ dec = [kind |-> "U8", byte_order |-> "Little"]
    /\ src = <<>>
    /\ last = NoDecode
    /\ prev = Brief(NoDecode)
    /\ pending = <<>>
    /\ fed = 0
    /\ target = "little"
    /\ prim = NoPrim
    /\ loop = NoLoop

\* the effect of a call that ended with outcome r
Apply(op, arg, slice, r) ==
    /\ status = "ok"
    /\ rb_last' = [op |-> op, arg |-> arg, slice |-> slice, ret |-> r.ret]
    /\ build' = build
    /\ UNCHANGED <<decvars, prim, loop>>
    /\ buf' = r.self.buf
    /\ init' = r.self.init
    /\ IF r.ret = "assert" /\ build = "release"
       THEN \* unreachable_unchecked(): undefined behaviour
            /\ status' = "ub"
            /\ filled' \in Usize
       ELSE /\ status' = IF r.ret \in {"assert", "panic"} THEN "panic" ELSE "ok"
            /\ filled' = r.self.filled

Clear == Apply("clear", 0, <<>>, clear(Self))

\* unsafe: the caller upholds filled <= init
SetFilledUnchecked ==
    \E k \in Usize :
        /\ k <= init
        /\ Apply("set_filled_unchecked", k, <<>>, set_filled_unchecked(Self, k))

TrySetFilled == \E k \in Usize : Apply("try_set_filled", k, <<>>, try_set_filled(Self, k))

SetFilled == \E k \in Usize : Apply("set_filled", k, <<>>, set_filled(Self, k))

AdvanceUnchecked ==
    \E n \in Usize : Apply("advance_unchecked", n, <<>>, advance_unchecked(Self, n))

TryAdvance == \E n \in Usize : Apply("try_advance", n, <<>>, try_advance(Self, n))

Advance == \E n \in Usize : Apply("advance", n, <<>>, advance(Self, n))

\* unsafe: the caller upholds that the first n unfilled bytes are initialized
AssumeInit ==
    \E n \in Usize :
        /\ filled + n <= Len(buf)
        /\ \A i \in (filled + 1)..(filled + n) : buf[i] # Uninit
        /\ Apply("assume_init", n, <<>>, assume_init(Self, n))

\* unsafe unfilled_mut(): the caller writes an initialized byte into the unfilled region
UnfilledMutWrite ==
    \E i \in (filled + 1)..Len(buf), b \in SampleBytes :
        Apply("unfilled_mut", i, <<b>>, Res([Self EXCEPT !.buf[i] = b], "Ok"))

InitializeUninit ==
    \E b \in SampleBytes : Apply("initialize_uninit", b, <<>>, initialize_uninit(Self, b))

InitializeUnfilled ==
    \E b \in SampleBytes : Apply("initialize_unfilled", b, <<>>, initialize_unfilled(Self, b))

TryPushSlice ==
    \E s \in SeqsUpTo(SampleBytes, MaxSlice) : Apply("try_push_slice", 0, s, try_push_slice(Self, s))

PushSlice ==
    \E s \in SeqsUpTo(SampleBytes, MaxSlice) : Apply("push_slice", 0, s, push_slice(Self, s))

NextReadBuf ==
    \/ Clear
    \/ SetFilledUnchecked
    \/ TrySetFilled
    \/ SetFilled
    \/ AdvanceUnchecked
    \/ TryAdvance
    \/ Advance
    \/ AssumeInit
    \/ UnfilledMutWrite
    \/ InitializeUninit
    \/ InitializeUnfilled
    \/ TryPushSlice
    \/ PushSlice

\* the calls of a program that keeps to the checked operations
NextChecked ==
    \/ Clear
    \/ TrySetFilled
    \/ TryAdvance
    \/ InitializeUninit
    \/ InitializeUnfilled
    \/ TryPushSlice


-----------------------------------------------------------------------------
(* Size: src/src/size.rs *)

Unknown == [tag |-> "Unknown"]
Known(n) == [tag |-> "Known", n |-> n]

\* Size::new
Size_new(bytes) == IF bytes = 0 THEN Unknown ELSE Known(bytes)

-----------------------------------------------------------------------------
(* Endian: src/src/endian.rs *)

Endian == {"Little", "Big"}

\* the marker types LittleEndian, BigEndian, NativeEndian and the unit type
Markers == {"LittleEndian", "BigEndian", "NativeEndian", "()"}

\* Endian::NATIVE
NATIVE == IF target = "little" THEN "Little" ELSE "Big"

\* <Endian as Default>::default
Endian_default == NATIVE

\* Endian::is_little, is_big, is_native
is_little(e) == e = "Little"
is_big(e) == e = "Big"
is_native(e) == e = NATIVE

\* to_inverse that returns the order it was given
to_inverse_same(e) == e

\* Endian::to_inverse
to_inverse(e) == IF e = "Little" THEN "Big" ELSE "Little"

\* <Endian as Not>::not and <&Endian as Not>::not
not(e) == to_inverse(e)

\* endian that takes every marker for little endian
endian_markers_little(byte_order) ==
    IF byte_order \in Markers THEN "Little" ELSE byte_order

\* ByteOrder::endian of Endian, LittleEndian, BigEndian, NativeEndian and ()
endian(byte_order) ==
    CASE byte_order \in Endian -> byte_order
      [] byte_order = "LittleEndian" -> "Little"
      [] byte_order = "BigEndian" -> "Big"
      [] byte_order = "NativeEndian" -> NATIVE
      [] byte_order = "()" -> NATIVE

-----------------------------------------------------------------------------
(* Decode outcomes: src/src/decoder.rs *)

Ok(v) == [tag |-> "Ok", value |-> v]
Eof == [tag |-> "Eof"]
DataRemains == [tag |-> "DataRemains"]
Incomplete(needed) == [tag |-> "Incomplete", needed |-> needed]
Fatal(error) == [tag |-> "Fatal", error |-> error]

\* what a decode call leaves behind: its return value and the caller's region
Out(ret, region) == [ret |-> ret, src |-> region]

\* Error::from_infallible: Error<Infallible> has no Fatal to convert
from_infallible(error) ==
    CASE error.tag = "Eof" -> Eof
      [] error.tag = "DataRemains" -> DataRemains
      [] error.tag = "Incomplete" -> Incomplete(error.needed)

-----------------------------------------------------------------------------
(* The concrete decoders: src/src/binary.rs *)

IntKinds == {"U8", "U16", "U32", "U64", "U128", "Usize",
             "I8", "I16", "I32", "I64", "I128", "Isize"}
FloatKinds == {"F32", "F64"}
\* the decoders the define! macro generates
DefineKinds == IntKinds \cup FloatKinds
ConcreteKinds == DefineKinds \cup {"Bool", "Char"}

\* size_of::<usize>() of the modelled target
PtrBytes == 8

\* the primitive type a define! decoder reads ($ty)
TypeOf(kind) ==
    CASE kind = "U8" -> "u8" [] kind = "U16" -> "u16" [] kind = "U32" -> "u32"
      [] kind = "U64" -> "u64" [] kind = "U128" -> "u128" [] kind = "Usize" -> "usize"
      [] kind = "I8" -> "i8" [] kind = "I16" -> "i16" [] kind = "I32" -> "i32"
      [] kind = "I64" -> "i64" [] kind = "I128" -> "i128" [] kind = "Isize" -> "isize"
      [] kind = "F32" -> "f32" [] kind = "F64" -> "f64"

\* mem::size_of::<$ty>()
SIZE(kind) ==
    CASE kind \in {"U8", "I8"} -> 1
      [] kind \in {"U16", "I16"} -> 2
      [] kind \in {"U32", "I32", "F32"} -> 4
      [] kind \in {"U64", "I64", "F64"} -> 8
      [] kind \in {"U128", "I128"} -> 16
      [] kind \in {"Usize", "Isize"} -> PtrBytes

Signed(ty) == ty \in {"i8", "i16", "i32", "i64", "i128", "isize"}

\* 256^k for the three bytes of a limb, and the weight above them
Pow256(k) == CASE k = 0 -> 1 [] k = 1 -> 256 [] k = 2 -> 65536 [] k = 3 -> 16777216

\* Numbers wider than TLC's 32-bit integers are kept as limbs of three bytes,
\* least significant limb first; the top limb of a signed type carries the sign
\* (two's complement), so the number is the sum of limbs[j] * 2^(24 (j - 1)).
LimbCount(w) == (w + 2) \div 3

\* FromDigits that reads every type as unsigned
FromDigits_unsigned(ty, digits) ==
    LET w == Len(digits)
        part(j, k) == IF 3 * j + k < w THEN digits[3 * j + k + 1] * Pow256(k) ELSE 0
    IN  [ty |-> ty,
         limbs |-> [j \in 1..LimbCount(w) |->
                        part(j - 1, 0) + part(j - 1, 1) + part(j - 1, 2)]]

\* the number whose base-256 digit of weight 256^m is digits[m + 1]
FromDigits(ty, digits) ==
    LET w == Len(digits)
        top == LimbCount(w) - 1
        part(j, k) == IF 3 * j + k < w THEN digits[3 * j + k + 1] * Pow256(k) ELSE 0
        limb(j) == part(j, 0) + part(j, 1) + part(j, 2)
        sign(j) == IF j = top /\ Signed(ty) /\ digits[w] >= 128
                   THEN Pow256(w - 3 * top) ELSE 0
    IN  [ty |-> ty, limbs |-> [j \in 1..LimbCount(w) |-> limb(j - 1) - sign(j - 1)]]

Reverse(s) == [i \in 1..Len(s) |-> s[Len(s) + 1 - i]]

\* $ty::from_le_bytes: the first byte is the least significant
from_le_bytes(ty, bytes) == FromDigits(ty, bytes)

\* $ty::from_be_bytes: the first byte is the most significant
from_be_bytes(ty, bytes) == FromDigits(ty, Reverse(bytes))

\* split_at_checked that wants a byte beyond mid
split_at_checked_strict(s, mid) ==
    IF mid < Len(s)
    THEN [some |-> TRUE, head |-> SubSeq(s, 1, mid), rest |-> SubSeq(s, mid + 1, Len(s))]
    ELSE [some |-> FALSE, head |-> <<>>, rest |-> <<>>]

\* slice::split_at_checked(mid): the two halves, or None
split_at_checked(s, mid) ==
    IF mid <= Len(s)
    THEN [some |-> TRUE, head |-> SubSeq(s, 1, mid), rest |-> SubSeq(s, mid + 1, Len(s))]
    ELSE [some |-> FALSE, head |-> <<>>, rest |-> <<>>]

\* define! decode without `*src = rest`
define_decode_keeps_region(kind, byte_order, region) ==
    LET sp == split_at_checked(region, SIZE(kind))
    IN  IF ~sp.some
        THEN Out(Incomplete(Size_new(SIZE(kind) - Len(region))), region)
        ELSE LET bits == IF endian(byte_order) = "Little"
                         THEN from_le_bytes(TypeOf(kind), sp.head)
                         ELSE from_be_bytes(TypeOf(kind), sp.head)
             IN  Out(Ok(bits), region)

\* define! decode that takes what is there of a short region
define_decode_takes_short(kind, byte_order, region) ==
    LET sp == split_at_checked(region, SIZE(kind))
    IN  IF ~sp.some
        THEN Out(Incomplete(Size_new(SIZE(kind) - Len(region))), <<>>)
        ELSE LET bits == IF endian(byte_order) = "Little"
                         THEN from_le_bytes(TypeOf(kind), sp.head)
                         ELSE from_be_bytes(TypeOf(kind), sp.head)
             IN  Out(Ok(bits), sp.rest)

\* define! decode that reads every frame as little-endian
define_decode_le_only(kind, byte_order, region) ==
    LET sp == split_at_checked(region, SIZE(kind))
    IN  IF ~sp.some
        THEN Out(Incomplete(Size_new(SIZE(kind) - Len(region))), region)
        ELSE Out(Ok(from_le_bytes(TypeOf(kind), sp.head)), sp.rest)

\* define! decode that reports the frame size instead of the shortfall
define_decode_needs_size(kind, byte_order, region) ==
    LET sp == split_at_checked(region, SIZE(kind))
    IN  IF ~sp.some
        THEN Out(Incomplete(Size_new(SIZE(kind))), region)
        ELSE LET bits == IF endian(byte_order) = "Little"
                         THEN from_le_bytes(TypeOf(kind), sp.head)
                         ELSE from_be_bytes(TypeOf(kind), sp.head)
             IN  Out(Ok(bits), sp.rest)

\* a define! decode that drops the bytes of a frame that is not whole yet
define_decode_drops_partial(kind, byte_order, region) ==
    LET sp == split_at_checked(region, SIZE(kind))
    IN  IF ~sp.some
        THEN Out(Incomplete(Size_new(SIZE(kind) - Len(region))), <<>>)
        ELSE LET bits == IF endian(byte_order) = "Little"
                         THEN from_le_bytes(TypeOf(kind), sp.head)
                         ELSE from_be_bytes(TypeOf(kind), sp.head)
             IN  Out(Ok(bits), sp.rest)

\* the decode of a define! decoder
define_decode(kind, byte_order, region) ==
    LET sp == split_at_checked(region, SIZE(kind))
    IN  IF ~sp.some
        THEN Out(Incomplete(Size_new(SIZE(kind) - Len(region))), region)
        ELSE LET bits == IF endian(byte_order) = "Little"
                         THEN from_le_bytes(TypeOf(kind), sp.head)
                         ELSE from_be_bytes(TypeOf(kind), sp.head)
             IN  Out(Ok(bits), sp.rest)

\* Bool decode that takes every nonzero byte for true
Bool_decode_nonzero_true(byte_order, region) ==
    LET d == define_decode("U8", byte_order, region)
    IN  IF d.ret.tag # "Ok" THEN Out(from_infallible(d.ret), region)
        ELSE IF d.ret.value.limbs[1] = 0 THEN Out(Ok(FALSE), d.src)
        ELSE Out(Ok(TRUE), d.src)

\* <Bool as Decoder>::decode
Bool_decode(byte_order, region) ==
    LET d == define_decode("U8", byte_order, region)
    IN  IF d.ret.tag # "Ok" THEN Out(from_infallible(d.ret), region)
        ELSE IF d.ret.value.limbs[1] = 0 THEN Out(Ok(FALSE), d.src)
        ELSE IF d.ret.value.limbs[1] = 1 THEN Out(Ok(TRUE), d.src)
        ELSE Out(Fatal("BoolError"), region)

\* char::try_from that lets the surrogates D800..DFFF through
char_try_from_surrogates(bits) ==
    LET lo == bits.limbs[1]
        hi == bits.limbs[2]
    IN  IF hi = 0 /\ lo <= 1114111
        THEN [some |-> TRUE, ch |-> [ty |-> "char", cp |-> lo]]
        ELSE [some |-> FALSE, ch |-> [ty |-> "char", cp |-> 0]]

\* char::try_from(u32): Some(code point) for a Unicode scalar value
char_try_from(bits) ==
    LET lo == bits.limbs[1]
        hi == bits.limbs[2]
    IN  IF hi = 0 /\ lo <= 1114111 /\ ~(lo >= 55296 /\ lo <= 57343)
        THEN [some |-> TRUE, ch |-> [ty |-> "char", cp |-> lo]]
        ELSE [some |-> FALSE, ch |-> [ty |-> "char", cp |-> 0]]

\* Char decode that advances the caller's region before it validates the bits
Char_decode_commits_early(byte_order, region) ==
    LET d == define_decode("U32", byte_order, region)
    IN  IF d.ret.tag # "Ok" THEN Out(from_infallible(d.ret), region)
        ELSE LET c == char_try_from(d.ret.value)
             IN  IF c.some THEN Out(Ok(c.ch), d.src)
                 ELSE Out(Fatal("CharTryFromError"), d.src)

\* Char decode that reads its four bytes most significant first whatever the order
Char_decode_big_only(byte_order, region) ==
    LET d == define_decode("U32", "Big", region)
    IN  IF d.ret.tag # "Ok" THEN Out(from_infallible(d.ret), region)
        ELSE LET c == char_try_from(d.ret.value)
             IN  IF c.some THEN Out(Ok(c.ch), d.src)
                 ELSE Out(Fatal("CharTryFromError"), region)

\* <Char as Decoder>::decode
Char_decode(byte_order, region) ==
    LET d == define_decode("U32", byte_order, region)
    IN  IF d.ret.tag # "Ok" THEN Out(from_infallible(d.ret), region)
        ELSE LET c == char_try_from(d.ret.value)
             IN  IF c.some THEN Out(Ok(c.ch), d.src)
                 ELSE Out(Fatal("CharTryFromError"), region)

\* Decoder::decode of a concrete decoder
decode(d, region) ==
    CASE d.kind = "Bool" -> Bool_decode(d.byte_order, region)
      [] d.kind = "Char" -> Char_decode(d.byte_order, region)
      [] OTHER -> define_decode(d.kind, d.byte_order, region)

\* the provided method Decoder::hint
Decoder_hint == Unknown

\* a hint that reports one byte for every decoder
hint_one_byte(d) == Size_new(1)

\* hint of the concrete decoders; other implementors are taken to keep the default
hint(d) ==
    CASE d.kind = "Bool" -> Size_new(1)
      [] d.kind = "Char" -> Size_new(4)
      [] d.kind \in DefineKinds -> Size_new(SIZE(d.kind))
      [] OTHER -> Decoder_hint

\* the suffixes of a region: what a decoder may leave of it
Suffixes(s) == {SubSeq(s, k, Len(s)) : k \in 1..(Len(s) + 1)}

\* Decoder::decode is a required method: an implementor outside this crate
\* ("Other") may return any outcome and leave any suffix of the region
DecodeOutcomes(d, region) ==
    IF d.kind \in ConcreteKinds THEN {decode(d, region)}
    ELSE {Out(r, rest) :
            r \in {Ok([ty |-> "item"]), Eof, DataRemains, Incomplete(Unknown),
                   Incomplete(Known(1)), Fatal("error")},
            rest \in Suffixes(region)}

\* decode_eof with the is_empty test inverted
decode_eof_inverted(inner) ==
    CASE inner.ret.tag = "Ok" -> Out(Ok(inner.ret.value), inner.src)
      [] inner.ret.tag = "Fatal" -> Out(Fatal(inner.ret.error), inner.src)
      [] inner.src # <<>> -> Out(Eof, inner.src)
      [] OTHER -> Out(DataRemains, inner.src)

\* the provided method Decoder::decode_eof, given what self.decode(src) did
decode_eof(inner) ==
    CASE inner.ret.tag = "Ok" -> Out(Ok(inner.ret.value), inner.src)
      [] inner.ret.tag = "Fatal" -> Out(Fatal(inner.ret.error), inner.src)
      [] inner.src = <<>> -> Out(Eof, inner.src)
      [] OTHER -> Out(DataRemains, inner.src)

-----------------------------------------------------------------------------
(* The regions the decoder model is run on. *)

\* regions hold up to MaxFrames frames of the decoder and MaxExtra further bytes
MaxFrames == 2
MaxExtra == 1

\* what a region continues with after its first frame: <<>> is the frame again,
\* <<b>> the byte b over and over
Tails == {<<>>, <<2>>}

\* u32 bit patterns around the edges of the Unicode scalar values, most significant
\* byte first: 0x41, 0xD7FF, 0xD800, 0xDFFF, 0xE000, 0x10FFFF, 0x110000, 0x01000041
CharEdges ==
    {<<0, 0, 0, 65>>, <<0, 0, 215, 255>>, <<0, 0, 216, 0>>, <<0, 0, 223, 255>>,
     <<0, 0, 224, 0>>, <<0, 16, 255, 255>>, <<0, 17, 0, 0>>, <<1, 0, 0, 65>>}

\* sample first frames of width w
Frames(w) ==
    IF w = 1 THEN {<<b>> : b \in Byte}
    ELSE LET half == {[i \in 1..w |-> b] : b \in {0, 128, 255}}
                     \cup {[i \in 1..w |-> i]}
                     \cup {[i \in 1..w |-> IF i = 1 THEN b ELSE 0] : b \in {1, 65, 128, 255}}
                     \cup (IF w = 4 THEN CharEdges ELSE {})
         IN  half \cup {Reverse(f) : f \in half}

\* the first len bytes of the stream that starts with frame f and goes on with tail t
Region(f, t, len) ==
    [i \in 1..len |->
        IF i <= Len(f) THEN f[i]
        ELSE IF t = <<>> THEN f[((i - 1) % Len(f)) + 1] ELSE t[1]]

Regions(w) ==
    {Region(f, t, len) : f \in Frames(w), t \in Tails, len \in 0..(MaxFrames * w + MaxExtra)}

\* the frame width of a concrete decoder: Bool reads a U8, Char a U32
Width(kind) ==
    CASE kind = "Bool" -> SIZE("U8") [] kind = "Char" -> SIZE("U32")
      [] OTHER -> SIZE(kind)

-----------------------------------------------------------------------------
(* The decoder state machine. *)

\* a program that constructs a decoder over a byte region (and an idle ReadBuf)
InitDecoder ==
    /\ dec \in [kind : ConcreteKinds \cup {"Other"}, byte_order : Endian]
    /\ src \in IF dec.kind = "Other" THEN SeqsUpTo(SampleBytes, MaxExtra + 1)
               ELSE Regions(Width(dec.kind))
    /\ last = NoDecode
    /\ prev = Brief(NoDecode)
    /\ pending = <<>>
    /\ fed = 0
    /\ target = "little"
    /\ prim = NoPrim
    /\ build \in {"debug", "release"}
    /\ status = "ok"
    /\ New(<<>>)
    /\ rb_last = NoCall("new")
    /\ loop = NoLoop

\* a decode that leaves the decoder with the inverse byte order
Decode_flips_order ==
    \E r \in DecodeOutcomes(dec, src) :
        /\ src' = r.src
        /\ last' = [op |-> "decode", inner |-> r.ret, ret |-> r.ret]
        /\ prev' = Brief(last)
        /\ fed' = 0
        /\ dec' = [dec EXCEPT !.byte_order = to_inverse(endian(dec.byte_order))]
        /\ UNCHANGED <<pending, target>>
        /\ UNCHANGED <<rbvars, prim, loop>>

\* decoder.decode(&mut src)
Decode ==
    \E r \in DecodeOutcomes(dec, src) :
        /\ src' = r.src
        /\ last' = [op |-> "decode", inner |-> r.ret, ret |-> r.ret]
        /\ prev' = Brief(last)
        /\ fed' = 0
        /\ UNCHANGED <<dec, pending, target>>
        /\ UNCHANGED <<rbvars, prim, loop>>

\* decoder.decode_eof(&mut src)
DecodeEof ==
    \E r \in DecodeOutcomes(dec, src) :
        /\ src' = decode_eof(r).src
        /\ last' = [op |-> "decode_eof", inner |-> r.ret, ret |-> decode_eof(r).ret]
        /\ prev' = Brief(last)
        /\ fed' = 0
        /\ UNCHANGED <<dec, pending, target>>
        /\ UNCHANGED <<rbvars, prim, loop>>

NextDecoder ==
    \/ Decode
    \/ DecodeEof

\* bounds of the streamed runs: one frame and StreamExtra further bytes arrive
StreamExtra == 1

\* the streams that reach a decoder of this kind byte by byte
Streams(kind) ==
    IF kind = "Other" THEN SeqsUpTo(SampleBytes, StreamExtra + 1)
    ELSE LET w == Width(kind)
             up == [i \in 1..w |-> i]
             first == IF w = 1 THEN {<<b>> : b \in {0, 1, 2, 255}}
                      ELSE {up, Reverse(up), [i \in 1..w |-> IF i = 1 THEN 65 ELSE 0],
                            [i \in 1..w |-> IF i = w THEN 65 ELSE 0]}
         IN  {Region(f, <<2>>, w + StreamExtra) : f \in first}

\* a program that constructs a decoder with any kind of byte order, on any target,
\* over a region that is still empty
InitStream ==
    /\ dec \in [kind : ConcreteKinds \cup {"Other"}, byte_order : Endian \cup Markers]
    /\ target \in {"little", "big"}
    /\ prim = NoPrim
    /\ pending \in Streams(dec.kind)
    /\ src = <<>>
    /\ fed = 0
    /\ last = NoDecode
    /\ prev = Brief(NoDecode)
    /\ build = "release"
    /\ status = "ok"
    /\ New(<<>>)
    /\ rb_last = NoCall("new")
    /\ loop = NoLoop

\* the caller appends the next byte of the stream to the region and will retry
Feed ==
    /\ pending # <<>>
    /\ src' = Append(src, Head(pending))
    /\ pending' = Tail(pending)
    /\ fed' = fed + 1
    /\ UNCHANGED <<dec, last, prev, target>>
    /\ UNCHANGED <<rbvars, prim, loop>>

\* decoder.hint()
Hint ==
    /\ last' = [op |-> "hint", inner |-> [tag |-> "None"], ret |-> hint(dec)]
    /\ prev' = Brief(last)
    /\ UNCHANGED <<dec, src, pending, fed, target>>
    /\ UNCHANGED <<rbvars, prim, loop>>

NextStream ==
    \/ Feed
    \/ Hint
    \/ Decode
    \/ DecodeEof

\* a program that constructs a concrete decoder over a finite region and runs
\*     while let Ok(_) = decoder.decode_eof(&mut src) { produced += 1 }
InitDrain ==
    /\ dec \in [kind : ConcreteKinds, byte_order : Endian]
    /\ src \in Regions(Width(dec.kind))
    /\ loop = [input |-> src, produced |-> 0, done |-> FALSE]
    /\ last = NoDecode
    /\ prev = Brief(NoDecode)
    /\ pending = <<>>
    /\ fed = 0
    /\ target = "little"
    /\ prim = NoPrim
    /\ build = "release"
    /\ status = "ok"
    /\ New(<<>>)
    /\ rb_last = NoCall("new")

\* one turn of the loop: decode_eof, and count the value or leave the loop; the
\* counter is capped at the length of the input
DrainStep ==
    /\ ~loop.done
    /\ loop.produced <= Len(loop.input)
    /\ \E r \in DecodeOutcomes(dec, src) :
        LET out == decode_eof(r)
        IN  /\ src' = out.src
            /\ last' = [op |-> "decode_eof", inner |-> r.ret, ret |-> out.ret]
            /\ prev' = Brief(last)
            /\ fed' = 0
            /\ loop' = IF out.ret.tag = "Ok"
                       THEN [loop EXCEPT !.produced = @ + 1]
                       ELSE [loop EXCEPT !.done = TRUE]
            /\ UNCHANGED <<dec, pending, target>>
            /\ UNCHANGED <<rbvars, prim>>

NextDrain ==
    \/ DrainStep

-----------------------------------------------------------------------------
(* Primitive: src/src/primitive.rs *)

\* core::result::Result::Err
Err(error) == [tag |-> "Err", error |-> error]

\* the types prim!(@int ...) is invoked on, those of prim!(...), and NonZero<$ty>
IntTypes == {"u8", "u16", "u32", "u64", "u128", "usize",
             "i8", "i16", "i32", "i64", "i128", "isize"}
FloatTypes == {"f32", "f64"}
NonZeroOf(ty) == "NonZero<" \o ty \o ">"
NonZeroTypes == {NonZeroOf(ty) : ty \in IntTypes}
\* NonZeroPrimitive::Zeroable
Zeroable(nz) == CHOOSE ty \in IntTypes : NonZeroOf(ty) = nz
PrimitiveTypes == IntTypes \cup FloatTypes \cup NonZeroTypes \cup {"bool", "char", "()"}

\* Primitive::BYTE_LEN, mem::size_of::<Self>()
BYTE_LEN(ty) ==
    LET t == IF ty \in NonZeroTypes THEN Zeroable(ty) ELSE ty
    IN  CASE t = "()" -> 0
          [] t \in {"bool", "u8", "i8"} -> 1
          [] t \in {"u16", "i16"} -> 2
          [] t \in {"char", "u32", "i32", "f32"} -> 4
          [] t \in {"u64", "i64", "f64"} -> 8
          [] t \in {"u128", "i128"} -> 16
          [] t \in {"usize", "isize"} -> PtrBytes

\* $ty::to_le_bytes: byte i is the base-256 digit of weight 256^(i - 1), in two's
\* complement for a negative number
to_le_bytes(v) ==
    [i \in 1..BYTE_LEN(v.ty) |->
        (v.limbs[((i - 1) \div 3) + 1] \div Pow256((i - 1) % 3)) % 256]

\* $ty::to_be_bytes
to_be_bytes(v) == Reverse(to_le_bytes(v))

\* <$ty as Primitive>::from_bytes
from_bytes(ty, bytes, e) ==
    IF e = "Little" THEN from_le_bytes(ty, bytes) ELSE from_be_bytes(ty, bytes)

\* NonZero::<$ty>::new
NonZero_new(value) ==
    IF \A j \in DOMAIN value.limbs : value.limbs[j] = 0
    THEN [some |-> FALSE, n |-> value]
    ELSE [some |-> TRUE, n |-> [ty |-> NonZeroOf(value.ty), limbs |-> value.limbs]]

\* from_zeroable that lets zero through
from_zeroable_unchecked(value) ==
    Ok([ty |-> NonZeroOf(value.ty), limbs |-> value.limbs])

\* <NonZero<$ty> as NonZeroPrimitive>::from_zeroable
from_zeroable(value) ==
    LET n == NonZero_new(value)
    IN  IF n.some THEN Ok(n.n) ELSE Err([ty |-> "NonZeroError", value |-> value])

\* <NonZero<$ty> as NonZeroPrimitive>::to_zeroable: self.get()
to_zeroable(n) == [ty |-> Zeroable(n.ty), limbs |-> n.limbs]

\* ZeroablePrimitive::to_nonzero and from_nonzero
to_nonzero(value) == from_zeroable(value)
from_nonzero(n) == to_zeroable(n)

\* to_bytes that writes the least significant byte first whatever the byte order
to_bytes_little_only(ty, v, e) ==
    CASE ty = "bool" -> <<IF v THEN 1 ELSE 0>>
      [] ty = "()" -> <<>>
      [] ty = "char" -> to_le_bytes([ty |-> "u32", limbs |-> <<v.cp, 0>>])
      [] ty \in NonZeroTypes -> to_le_bytes(to_zeroable(v))
      [] OTHER -> to_le_bytes(v)

\* NonZero to_bytes that writes the bytes of the value less one
to_bytes_nonzero_biased(ty, v, e) ==
    LET plain(x) == IF e = "Little" THEN to_le_bytes(x) ELSE to_be_bytes(x)
    IN  CASE ty = "bool" -> <<IF v THEN 1 ELSE 0>>
          [] ty = "()" -> <<>>
          [] ty = "char" -> plain([ty |-> "u32", limbs |-> <<v.cp, 0>>])
          [] ty \in NonZeroTypes ->
                plain([ty |-> Zeroable(v.ty), limbs |-> [v.limbs EXCEPT ![1] = @ - 1]])
          [] OTHER -> plain(v)

\* Primitive::to_bytes of (), bool, char, NonZero<$ty> and $ty
to_bytes(ty, v, e) ==
    LET plain(x) == IF e = "Little" THEN to_le_bytes(x) ELSE to_be_bytes(x)
    IN  CASE ty = "bool" -> <<IF v THEN 1 ELSE 0>>
          [] ty = "()" -> <<>>
          [] ty = "char" -> plain([ty |-> "u32", limbs |-> <<v.cp, 0>>])
          [] ty \in NonZeroTypes -> plain(to_zeroable(v))
          [] OTHER -> plain(v)

\* try_from_bytes that takes every nonzero byte for true
try_from_bytes_lenient_bool(ty, bytes, e) ==
    CASE ty = "()" -> Ok([ty |-> "()"])
      [] ty = "bool" -> Ok(bytes[1] # 0)
      [] ty = "char" ->
            LET ch == from_bytes("u32", bytes, e)
                c == char_try_from(ch)
            IN  IF c.some THEN Ok(c.ch) ELSE Err([ty |-> "CharError", value |-> ch])
      [] ty \in NonZeroTypes -> from_zeroable(from_bytes(Zeroable(ty), bytes, e))
      [] OTHER -> Ok(from_bytes(ty, bytes, e))

\* Primitive::try_from_bytes of (), bool, char, NonZero<$ty> and $ty
try_from_bytes(ty, bytes, e) ==
    CASE ty = "()" -> Ok([ty |-> "()"])
      [] ty = "bool" ->
            IF bytes[1] = 0 THEN Ok(FALSE)
            ELSE IF bytes[1] = 1 THEN Ok(TRUE)
            ELSE Err([ty |-> "BoolError", value |-> bytes[1]])
      [] ty = "char" ->
            LET ch == from_bytes("u32", bytes, e)
                c == char_try_from(ch)
            IN  IF c.some THEN Ok(c.ch) ELSE Err([ty |-> "CharError", value |-> ch])
      [] ty \in NonZeroTypes -> from_zeroable(from_bytes(Zeroable(ty), bytes, e))
      [] OTHER -> Ok(from_bytes(ty, bytes, e))

-----------------------------------------------------------------------------
(* Buffer on a byte slice: src/src/buffer.rs *)

\* <&[u8] as Buffer>::chunk
chunk(self) == self

\* <&[u8] as Buffer>::remaining
remaining(self) == Len(self)

\* a try_advance that stops at the end of the slice instead of failing
Buffer_try_advance_saturating(self, cnt) ==
    LET sp == split_at_checked(self, cnt)
    IN  IF sp.some THEN [ret |-> "Ok", self |-> sp.rest]
        ELSE [ret |-> "Ok", self |-> <<>>]

\* <&[u8] as Buffer>::try_advance: the result and what is left of self
Buffer_try_advance(self, cnt) ==
    LET sp == split_at_checked(self, cnt)
    IN  IF sp.some THEN [ret |-> "Ok", self |-> sp.rest]
        ELSE [ret |-> "failed to advance slice", self |-> self]

\* <&[u8] as Buffer>::try_copy_to_slice: the result, what slice holds afterwards
\* and what is left of self
try_copy_to_slice(self, slice) ==
    LET sp == split_at_checked(self, Len(slice))
    IN  IF sp.some THEN [ret |-> "Ok", slice |-> sp.head, self |-> sp.rest]
        ELSE [ret |-> "failed to advance slice", slice |-> slice, self |-> self]

\* P::Bytes::default(): an array of BYTE_LEN zero bytes
Bytes_default(ty) == [i \in 1..BYTE_LEN(ty) |-> 0]

\* <ReadPrimitiveError as FromBufferError>::from_buffer_error
from_buffer_error(error) ==
    [ty |-> "Buffer", endian |-> Endian_default, error |-> error]

\* ReadPrimitiveError::endian
ReadPrimitiveError_endian(self) == self.endian

\* <ReadPrimitiveError as ReadError<Endian>>::context
context(self) == [some |-> TRUE, value |-> self.endian]

\* a try_read_buffer that gives the rejected bytes back to the buffer
try_read_buffer_unreads(ty, buffer, e) ==
    LET c == try_copy_to_slice(buffer, Bytes_default(ty))
        r == try_from_bytes(ty, c.slice, e)
    IN  IF c.ret # "Ok"
        THEN [ret |-> Err(from_buffer_error(c.ret)), buffer |-> c.self]
        ELSE IF r.tag = "Ok" THEN [ret |-> r, buffer |-> c.self]
        ELSE [ret |-> Err([ty |-> "Primitive", endian |-> e, error |-> r.error]),
              buffer |-> buffer]

\* <P as ReadBuffer<Endian>>::try_read_buffer: the result and what is left of buffer
try_read_buffer(ty, buffer, e) ==
    LET c == try_copy_to_slice(buffer, Bytes_default(ty))
        r == try_from_bytes(ty, c.slice, e)
    IN  IF c.ret # "Ok"
        THEN [ret |-> Err(from_buffer_error(c.ret)), buffer |-> c.self]
        ELSE [ret |-> IF r.tag = "Ok" THEN r
                      ELSE Err([ty |-> "Primitive", endian |-> e, error |-> r.error]),
              buffer |-> c.self]

\* Buffer::read_with::<T, Endian>
read_with(ty, buffer, ctx) == try_read_buffer(ty, buffer, ctx)

\* Buffer::read::<T>, through <P as ReadBuffer<()>>::try_read_buffer
read(ty, buffer) == try_read_buffer(ty, buffer, Endian_default)

\* the slices the reads are run on: four bytes of an f32 (f32::NAN most significant
\* byte first among them) followed by four bytes of a u32 (the code point of
\* char::REPLACEMENT_CHARACTER least significant byte first among them)
Slices ==
    {a \o b : a \in {<<127, 192, 0, 0>>, <<255, 255, 255, 255>>, <<0, 0, 192, 127>>,
                      <<127, 128, 0, 1>>, <<63, 128, 0, 0>>},
              b \in {<<253, 255, 0, 0>>, <<65, 0, 0, 0>>, <<0, 0, 255, 253>>,
                      <<0, 216, 0, 0>>}}

\* a program that reads primitives from a byte slice on either target
InitBuffer ==
    /\ src \in Slices
    /\ target \in {"little", "big"}
    /\ prim = NoPrim
    /\ loop = NoLoop
    /\ dec = [kind |-> "U8", byte_order |-> "Little"]
    /\ last = NoDecode
    /\ prev = Brief(NoDecode)
    /\ pending = <<>>
    /\ fed = 0
    /\ build = "release"
    /\ status = "ok"
    /\ New(<<>>)
    /\ rb_last = NoCall("new")

\* buffer.read::<T>()
Read ==
    \E ty \in PrimitiveTypes :
        /\ prim' = [fn |-> "read", ty |-> ty, ret |-> read(ty, src).ret]
        /\ src' = read(ty, src).buffer
        /\ UNCHANGED <<dec, last, prev, pending, fed, target>>
        /\ UNCHANGED <<rbvars, loop>>

\* buffer.read_with::<T, _>(endian)
ReadWith ==
    \E ty \in PrimitiveTypes, e \in Endian :
        /\ prim' = [fn |-> "read_with", ty |-> ty, endian |-> e,
                    ret |-> read_with(ty, src, e).ret]
        /\ src' = read_with(ty, src, e).buffer
        /\ UNCHANGED <<dec, last, prev, pending, fed, target>>
        /\ UNCHANGED <<rbvars, loop>>

\* the longest slice handed to try_copy_to_slice
MaxDst == 3

\* the slices copied into: up to MaxDst bytes the buffer does not hold
Dsts == {[i \in 1..n |-> 170] : n \in 0..MaxDst}

\* buffer.try_advance(cnt)
BufferTryAdvance ==
    \E cnt \in Usize :
        /\ prim' = [fn |-> "try_advance", cnt |-> cnt,
                    ret |-> Buffer_try_advance(src, cnt).ret]
        /\ src' = Buffer_try_advance(src, cnt).self
        /\ UNCHANGED <<dec, last, prev, pending, fed, target>>
        /\ UNCHANGED <<rbvars, loop>>

\* buffer.try_copy_to_slice(&mut dst)
TryCopyToSlice ==
    \E dst \in Dsts :
        /\ prim' = [fn |-> "try_copy_to_slice", dst |-> dst,
                    slice |-> try_copy_to_slice(src, dst).slice,
                    ret |-> try_copy_to_slice(src, dst).ret]
        /\ src' = try_copy_to_slice(src, dst).self
        /\ UNCHANGED <<dec, last, prev, pending, fed, target>>
        /\ UNCHANGED <<rbvars, loop>>

NextBuffer ==
    \/ Read
    \/ ReadWith
    \/ BufferTryAdvance
    \/ TryCopyToSlice

-----------------------------------------------------------------------------
(* Size and Needed: src/src/size.rs, src/src/needed.rs *)

\* Size::map that maps what the closure returns straight into Known
Size_map_unchecked(self, f) ==
    IF self = Unknown THEN [ret |-> Unknown, consulted |-> <<>>]
    ELSE [ret |-> Known(f[self.n]), consulted |-> <<self.n>>]

\* Size::map: the result, and the arguments the closure f was called with
Size_map(self, f) ==
    IF self = Unknown THEN [ret |-> Unknown, consulted |-> <<>>]
    ELSE [ret |-> Size_new(f[self.n]), consulted |-> <<self.n>>]

\* Needed::Unknown, Needed::Known, Needed::new
Needed_Unknown == [tag |-> "Unknown"]
Needed_Known(n) == [tag |-> "Known", n |-> n]
Needed_new(bytes_needed) ==
    IF bytes_needed = 0 THEN Needed_Unknown ELSE Needed_Known(bytes_needed)

\* Needed::map
Needed_map(self, f) ==
    IF self = Needed_Unknown THEN [ret |-> Needed_Unknown, consulted |-> <<>>]
    ELSE [ret |-> Needed_new(f[self.n]), consulted |-> <<self.n>>]

-----------------------------------------------------------------------------
(* The calls of the pure functions. *)

\* the largest byte count handed to Size::new and returned by a mapping closure
MaxBytes == 3

\* the closures handed to map: every function from a known amount to a usize
Closures == [1..MaxBytes -> 0..MaxBytes]

\* sample byte arrays of a type's Bytes
ByteArrays(ty) == IF BYTE_LEN(ty) = 0 THEN {<<>>} ELSE Frames(BYTE_LEN(ty))

\* sample numbers of an integer or float type (floats as their bits)
Numbers(ty) == {from_le_bytes(ty, b) : b \in ByteArrays(ty)}

\* sample values of a Primitive type
Values(ty) ==
    CASE ty = "()" -> {[ty |-> "()"]}
      [] ty = "bool" -> BOOLEAN
      [] ty = "char" ->
            {c.ch : c \in {x \in {char_try_from(from_be_bytes("u32", b)) : b \in CharEdges} :
                               x.some}}
      [] ty \in NonZeroTypes ->
            {n.n : n \in {x \in {NonZero_new(v) : v \in Numbers(Zeroable(ty))} : x.some}}
      [] OTHER -> Numbers(ty)

\* a program that calls one pure function of the crate, and may go on mapping a
\* Size or a Needed it has made (buffer and decoder idle)
InitPrimitive ==
    /\ prim = NoPrim
    /\ build = "release"
    /\ status = "ok"
    /\ New(<<>>)
    /\ rb_last = NoCall("new")
    /\ dec = [kind |-> "U8", byte_order |-> "Little"]
    /\ src = <<>>
    /\ last = NoDecode
    /\ prev = Brief(NoDecode)
    /\ pending = <<>>
    /\ fed = 0
    /\ target \in {"little", "big"}
    /\ loop = NoLoop

\* T::try_from_bytes(v.to_bytes(e), e)
RoundTrip ==
    /\ prim = NoPrim
    /\ \E ty \in PrimitiveTypes, e \in Endian :
        \E v \in Values(ty) :
            /\ prim' = [fn |-> "to_bytes", ty |-> ty, endian |-> e, value |-> v,
                        bytes |-> to_bytes(ty, v, e),
                        back |-> try_from_bytes(ty, to_bytes(ty, v, e), e)]
            /\ UNCHANGED <<rbvars, decvars, loop>>

\* T::try_from_bytes(bytes, e)
TryFromBytes ==
    /\ prim = NoPrim
    /\ \E ty \in PrimitiveTypes, e \in Endian :
        \E bytes \in ByteArrays(ty) :
            /\ prim' = [fn |-> "try_from_bytes", ty |-> ty, endian |-> e, bytes |-> bytes,
                        ret |-> try_from_bytes(ty, bytes, e)]
            /\ UNCHANGED <<rbvars, decvars, loop>>

\* NonZero::<T>::from_zeroable(v), v.to_nonzero(), and to_zeroable of the result
FromZeroable ==
    /\ prim = NoPrim
    /\ \E ty \in IntTypes :
        \E v \in Values(ty) :
            LET r == from_zeroable(v)
            IN  /\ prim' = [fn |-> "from_zeroable", ty |-> ty, value |-> v, ret |-> r,
                            to_nonzero |-> to_nonzero(v),
                            back |-> IF r.tag = "Ok" THEN <<to_zeroable(r.value)>> ELSE <<>>]
                /\ UNCHANGED <<rbvars, decvars, loop>>

\* n.to_zeroable(), T::from_nonzero(n), and from_zeroable of the result
ToZeroable ==
    /\ prim = NoPrim
    /\ \E ty \in NonZeroTypes :
        \E n \in Values(ty) :
            /\ prim' = [fn |-> "to_zeroable", ty |-> ty, value |-> n, ret |-> to_zeroable(n),
                        from_nonzero |-> from_nonzero(n),
                        back |-> from_zeroable(to_zeroable(n))]
            /\ UNCHANGED <<rbvars, decvars, loop>>

\* the queries and the inversions of an Endian value
EndianCalls ==
    /\ prim = NoPrim
    /\ \E e \in Endian :
        /\ prim' = [fn |-> "Endian", e |-> e,
                    is_little |-> is_little(e), is_big |-> is_big(e),
                    is_native |-> is_native(e),
                    to_inverse |-> to_inverse(e), not |-> not(e),
                    twice |-> to_inverse(to_inverse(e)),
                    default |-> Endian_default]
        /\ UNCHANGED <<rbvars, decvars, loop>>

\* Size::new(n)
SizeNew ==
    /\ prim = NoPrim
    /\ \E n \in 0..MaxBytes :
        /\ prim' = [fn |-> "Size::new", arg |-> n, ret |-> Size_new(n)]
        /\ UNCHANGED <<rbvars, decvars, loop>>

\* size.map(f) on the Size the last call returned
SizeMap ==
    /\ prim.fn \in {"Size::new", "Size::map"}
    /\ \E f \in Closures :
        /\ prim' = [fn |-> "Size::map", self |-> prim.ret, f |-> f,
                    consulted |-> Size_map(prim.ret, f).consulted,
                    ret |-> Size_map(prim.ret, f).ret]
        /\ UNCHANGED <<rbvars, decvars, loop>>

\* Needed::new(n)
NeededNew ==
    /\ prim = NoPrim
    /\ \E n \in 0..MaxBytes :
        /\ prim' = [fn |-> "Needed::new", arg |-> n, ret |-> Needed_new(n)]
        /\ UNCHANGED <<rbvars, decvars, loop>>

\* needed.map(f) on the Needed the last call returned
NeededMap ==
    /\ prim.fn \in {"Needed::new", "Needed::map"}
    /\ \E f \in Closures :
        /\ prim' = [fn |-> "Needed::map", self |-> prim.ret, f |-> f,
                    consulted |-> Needed_map(prim.ret, f).consulted,
                    ret |-> Needed_map(prim.ret, f).ret]
        /\ UNCHANGED <<rbvars, decvars, loop>>

NextPrimitive ==
    \/ RoundTrip
    \/ TryFromBytes
    \/ FromZeroable
    \/ ToZeroable
    \/ EndianCalls
    \/ SizeNew
    \/ SizeMap
    \/ NeededNew
    \/ NeededMap

-----------------------------------------------------------------------------
(* Specifications. *)

\* a program that only drives a ReadBuf
SpecReadBuf == InitReadBuf /\ [][NextReadBuf]_vars

\* a program that drives a ReadBuf through the checked operations only
SpecChecked == InitReadBuf /\ [][NextChecked]_vars

\* a program that only drives a decoder over a byte region
SpecDecoder == InitDecoder /\ [][NextDecoder]_vars

\* a program that feeds a decoder byte by byte, asking for hints and retrying
SpecStream == InitStream /\ [][NextStream]_vars

\* a program that drains a region with decode_eof; the loop is the only thread, so
\* its next turn is always taken
SpecDrain == InitDrain /\ [][NextDrain]_vars /\ WF_vars(NextDrain)

\* a program that reads primitives from a byte slice
SpecBuffer == InitBuffer /\ [][NextBuffer]_vars

\* a program that only calls the pure functions
SpecPrimitive == InitPrimitive /\ [][NextPrimitive]_vars

-----------------------------------------------------------------------------
(* Properties of ReadBuf. *)

\* the methods of ReadBuf that are not declared `unsafe`
SafeOps == {"clear", "try_set_filled", "set_filled", "advance_unchecked", "try_advance",
            "advance", "initialize_uninit", "initialize_unfilled", "try_push_slice",
            "push_slice"}

BufInvariant == filled <= init /\ init <= Len(buf)

Max(a, b) == IF a >= b THEN a ELSE b

\* C1: from either constructor, every call of a method that is not declared
\* `unsafe`, with any argument, leaves filled <= init <= capacity.
C1_SafeCallsKeepInvariant ==
    [][(BufInvariant /\ rb_last'.op \in SafeOps) => BufInvariant']_vars

\* C2: try_push_slice(slice) succeeds exactly when slice.len() <= capacity - filled;
\* on success filled grows by slice.len(), init becomes max(init, new filled) and the
\* bytes [old filled, new filled) equal the slice; on failure it returns SliceTooLarge
\* (push_slice panics) and filled, init and every byte of the buffer are unchanged.
C2_PushSlice ==
    [][rb_last'.op \in {"try_push_slice", "push_slice"} =>
        LET slice == rb_last'.slice
            fits == Len(slice) <= Len(buf) - filled
        IN  /\ (rb_last'.ret = "Ok") <=> fits
            /\ fits =>
                /\ status' = "ok"
                /\ filled' = filled + Len(slice)
                /\ init' = Max(init, filled')
                /\ Len(buf') = Len(buf)
                /\ \A i \in 1..Len(slice) : buf'[filled + i] = slice[i]
            /\ ~fits =>
                /\ rb_last'.ret = IF rb_last'.op = "try_push_slice"
                                  THEN "SliceTooLarge" ELSE "panic"
                /\ status' = IF rb_last'.op = "try_push_slice" THEN "ok" ELSE "panic"
                /\ filled' = filled /\ init' = init /\ buf' = buf]_vars

\* a slice was pushed behind earlier data into uninitialized cells, raising init
C2_Witness ==
    /\ rb_last.op = "try_push_slice" /\ rb_last.ret = "Ok"
    /\ Len(rb_last.slice) = 2 /\ filled = 3 /\ init = 3
    /\ buf[1] # buf[2] /\ SubSeq(buf, 2, 3) = rb_last.slice

C19_CheckedCursor ==
    [][rb_last'.op \in {"try_set_filled", "set_filled", "try_advance", "advance"} =>
        LET op == rb_last'.op
            arg == rb_last'.arg
            goal == IF op \in {"try_set_filled", "set_filled"} THEN arg ELSE filled + arg
            fails == goal > init \/ goal > UsizeMax
            panics == op \in {"set_filled", "advance"}
        IN  /\ init' = init
            /\ buf' = buf
            /\ fails =>
                /\ rb_last'.ret = IF panics THEN "panic" ELSE "FilledTooLarge"
                /\ status' = IF panics THEN "panic" ELSE "ok"
                /\ filled' = filled
            /\ ~fails =>
                /\ rb_last'.ret = "Ok" /\ status' = "ok"
                /\ filled' = goal]_vars

\* try_advance refused a sum that does not fit in usize
C19_Witness ==
    /\ rb_last.op = "try_advance" /\ rb_last.ret = "FilledTooLarge"
    /\ filled > 0 /\ filled + rb_last.arg > UsizeMax /\ status = "ok"

\* ReadBuf::filled(): the filled bytes
filled_bytes(self) == SubSeq(self.buf, 1, self.filled)

\* C20: clear sets filled to 0 and leaves init, capacity and every byte of the
\* buffer unchanged; hence after clear, try_set_filled(k) succeeds for every k up to
\* the old init, and filled() then exposes the bytes that were there before.
C20_ClearKeepsInit ==
    [][/\ rb_last'.op = "clear" =>
            (rb_last'.ret = "Ok" /\ filled' = 0 /\ init' = init /\ buf' = buf)
       /\ (rb_last.op = "clear" /\ rb_last'.op = "try_set_filled" /\ rb_last'.arg <= init) =>
            /\ rb_last'.ret = "Ok"
            /\ filled' = rb_last'.arg
            /\ filled_bytes(Self') = SubSeq(buf, 1, rb_last'.arg)]_vars

\* clear emptied a buffer that keeps two initialized bytes
C20_Witness ==
    /\ rb_last.op = "clear" /\ rb_last.ret = "Ok"
    /\ filled = 0 /\ init = 2 /\ Len(buf) = 3 /\ buf[1] # buf[2] /\ buf[3] = Uninit

\* C25: initialize_uninit(byte) and initialize_unfilled(byte) both set init to the
\* capacity and leave filled and the bytes [0, filled) unchanged; initialize_uninit
\* writes byte to [old init, capacity) only, initialize_unfilled writes byte to all of
\* [filled, capacity), the initialized scratch bytes [filled, old init) included.
C25_Initialize ==
    [][rb_last'.op \in {"initialize_uninit", "initialize_unfilled"} =>
        LET from == IF rb_last'.op = "initialize_uninit" THEN init ELSE filled
        IN  /\ rb_last'.ret = "Ok"
            /\ init' = Len(buf) /\ Len(buf') = Len(buf)
            /\ filled' = filled
            /\ \A i \in 1..Len(buf) :
                    buf'[i] = IF i > from THEN rb_last'.arg ELSE buf[i]]_vars

\* initialize_unfilled(255) overwrote the scratch bytes behind one filled byte
C25_Witness ==
    /\ rb_last.op = "initialize_unfilled" /\ rb_last.arg = 255
    /\ filled = 1 /\ init = 3 /\ buf = <<0, 255, 255>>

\* C26: assume_init(n), called with filled + n <= capacity, sets init to
\* max(old init, filled + n), leaves filled and every byte unchanged and keeps
\* filled <= init <= capacity; it never lowers init, also when n = 0 or
\* filled + n <= init.
C26_AssumeInit ==
    [][(rb_last'.op = "assume_init" /\ filled + rb_last'.arg <= Len(buf)) =>
        /\ rb_last'.ret = "Ok" /\ status' = "ok"
        /\ init' = Max(init, filled + rb_last'.arg)
        /\ init' >= init
        /\ filled' = filled /\ buf' = buf
        /\ BufInvariant']_vars

\* assume_init(1) with nothing filled on a buffer whose init is already 2
C26_Witness ==
    /\ rb_last.op = "assume_init" /\ rb_last.arg = 1
    /\ filled = 0 /\ init = 2 /\ Len(buf) = 3

\* C29: restricted to the checked operations (new / from_uninit, clear,
\* try_set_filled, try_advance, initialize_uninit, initialize_unfilled,
\* try_push_slice), every reachable ReadBuf satisfies filled <= init <= capacity and
\* the assertion of _assert_invariants is never triggered; new starts at filled = 0,
\* init = capacity and from_uninit at filled = 0, init = 0.
C29_CheckedKeepInvariant ==
    /\ BufInvariant
    /\ status = "ok" /\ rb_last.ret \notin {"assert", "panic"}
    /\ rb_last.op = "new" => (filled = 0 /\ init = Len(buf))
    /\ rb_last.op = "from_uninit" => (filled = 0 /\ init = 0)

\* two bytes were pushed into a buffer of three uninitialized cells
C29_Witness ==
    /\ rb_last.op = "try_push_slice" /\ rb_last.ret = "Ok"
    /\ filled = 2 /\ init = 2 /\ Len(buf) = 3 /\ buf[3] = Uninit

-----------------------------------------------------------------------------
(* Properties of the decoders. *)

\* the byte width of the primitive type each concrete decoder yields
TypeWidth(kind) ==
    CASE kind \in {"U8", "I8", "Bool"} -> 1
      [] kind \in {"U16", "I16"} -> 2
      [] kind \in {"U32", "I32", "F32", "Char"} -> 4
      [] kind \in {"U64", "I64", "F64"} -> 8
      [] kind \in {"U128", "I128"} -> 16
      [] kind \in {"Usize", "Isize"} -> PtrBytes

Concrete == dec.kind \in ConcreteKinds

\* the last step was a call of decoder.decode
Decoded == last'.op = "decode"

\* C3: every concrete decoder, under either byte order, on a region shorter than
\* its width (the empty region included) returns Incomplete from decode and leaves
\* the region's length and contents as they were.
C3_IncompleteLeavesRegion ==
    [][(Decoded /\ Concrete /\ Len(src) < TypeWidth(dec.kind)) =>
        (last'.ret.tag = "Incomplete" /\ src' = src)]_vars

\* a Char decoder was handed three of its four bytes
C3_Witness ==
    /\ last.op = "decode" /\ dec.kind = "Char" /\ last.ret.tag = "Incomplete"
    /\ Len(src) = 3

\* the base-256 digit of weight 256^m of a decoded number
DigitOf(v, m) == (v.limbs[(m \div 3) + 1] \div Pow256(m % 3)) % 256

\* v is a number of type ty and width w: every limb but the top one is in 0..2^24-1,
\* the top limb is in the range of its bytes (signed for a signed type)
InRange(v, ty, w) ==
    LET n == (w + 2) \div 3
        top == Pow256(w - 3 * (n - 1))
    IN  /\ v.ty = ty
        /\ Len(v.limbs) = n
        /\ \A j \in 1..(n - 1) : v.limbs[j] \in 0..(Pow256(3) - 1)
        /\ IF ty \in {"i8", "i16", "i32", "i64", "i128", "isize"}
           THEN 2 * v.limbs[n] >= -top /\ 2 * v.limbs[n] < top
           ELSE v.limbs[n] >= 0 /\ v.limbs[n] < top

\* C4: an integer or float decoder of width W on a region of length >= W succeeds,
\* returns the value of the first W bytes read in the decoder's byte order (the k-th
\* byte is the digit of weight 256^(k-1) under Little, 256^(W-k) under Big), and
\* leaves the region with exactly its first W bytes removed.
C4_DecodeValueAndRest ==
    [][(Decoded /\ dec.kind \in DefineKinds /\ Len(src) >= TypeWidth(dec.kind)) =>
        LET w == TypeWidth(dec.kind)
            v == last'.ret.value
        IN  /\ last'.ret.tag = "Ok"
            /\ InRange(v, TypeOf(dec.kind), w)
            /\ \A k \in 1..w :
                  src[k] = DigitOf(v, IF dec.byte_order = "Little" THEN k - 1 ELSE w - k)
            /\ Len(src') = Len(src) - w
            /\ \A i \in 1..Len(src') : src'[i] = src[w + i]]_vars

\* a big-endian I16 read 0x80 0x00 as -32768 and left the byte behind it
C4_Witness ==
    /\ last.op = "decode" /\ dec = [kind |-> "I16", byte_order |-> "Big"]
    /\ last.ret = Ok([ty |-> "i16", limbs |-> <<-32768>>])
    /\ Len(src) = 1

\* C5: on a region of length L < W a concrete decoder's Incomplete carries
\* needed = Known(W - L), the exact shortfall, at least 1 and never Unknown; Bool and
\* Char report what their U8 / U32 delegate reports on the same region.
C5_NeededIsShortfall ==
    [][(Decoded /\ Concrete /\ Len(src) < TypeWidth(dec.kind)) =>
        /\ last'.ret = Incomplete(Known(TypeWidth(dec.kind) - Len(src)))
        /\ last'.ret.needed.n >= 1
        /\ dec.kind = "Bool" => last'.ret = define_decode("U8", dec.byte_order, src).ret
        /\ dec.kind = "Char" => last'.ret = define_decode("U32", dec.byte_order, src).ret]_vars

\* a U128 decoder holding 14 of its 16 bytes asked for 2 more
C5_Witness ==
    /\ last.op = "decode" /\ dec.kind = "U128" /\ Len(src) = 14
    /\ last.ret = Incomplete(Known(2))

\* C6: for any decoder, decode_eof returns what decode returned when that is a
\* value or Fatal; for every other outcome of decode it returns Eof if the region is
\* empty after the attempt and DataRemains otherwise; it never returns Incomplete.
C6_DecodeEofOutcome ==
    last.op = "decode_eof" =>
        /\ last.inner.tag \in {"Ok", "Fatal"} => last.ret = last.inner
        /\ last.inner.tag \notin {"Ok", "Fatal"} =>
              last.ret = IF Len(src) = 0 THEN Eof ELSE DataRemains
        /\ last.ret.tag # "Incomplete"

\* a decoder outside the crate answered DataRemains after consuming the whole region,
\* and decode_eof turned that into Eof
C6_Witness ==
    /\ last.op = "decode_eof" /\ dec.kind = "Other"
    /\ last.inner = DataRemains /\ last.ret = Eof /\ src = <<>>
    /\ prev.tag = "Incomplete"

\* the first four bytes of a region as a u32 in the given order: its top byte and
\* the number its three low bytes make
TopByte(r, order) == IF order = "Little" THEN r[4] ELSE r[1]
Low24(r, order) ==
    IF order = "Little" THEN r[1] + 256 * r[2] + 65536 * r[3]
    ELSE r[4] + 256 * r[3] + 65536 * r[2]

\* the u32 is a Unicode scalar value: 0..=0xD7FF or 0xE000..=0x10FFFF
IsScalar(r, order) ==
    /\ TopByte(r, order) = 0
    /\ \/ Low24(r, order) <= 55295
       \/ Low24(r, order) >= 57344 /\ Low24(r, order) <= 1114111

\* the region starts with a frame the decoder accepts
StartsWithFrame(r) ==
    /\ Len(r) >= TypeWidth(dec.kind)
    /\ dec.kind = "Bool" => r[1] \in {0, 1}
    /\ dec.kind = "Char" => IsScalar(r, dec.byte_order)

\* the last step was a call of decoder.decode_eof
DecodedEof == last'.op = "decode_eof"

\* (a) one complete frame and nothing else: the value, and the region is empty
C7a ==
    (DecodedEof /\ Concrete /\ StartsWithFrame(src) /\ Len(src) = TypeWidth(dec.kind)) =>
        (last'.ret.tag = "Ok" /\ src' = <<>>)

\* the call before this one was a decode_eof that returned a value from a region
\* holding one frame and one trailing byte
AfterFramePlusOne == last.op = "decode_eof" /\ last.ret.tag = "Ok" /\ Len(src) = 1

\* (c) nothing left: Eof
C7c == (DecodedEof /\ Concrete /\ Len(src) = 0) => last'.ret = Eof

\* C7 as claimed: for every concrete decoder and byte order, (a) on exactly one
\* complete frame decode_eof returns the value and leaves the region empty; (b) on one
\* frame followed by one trailing byte the first decode_eof returns the value and a
\* further decode_eof returns DataRemains; (c) on zero remaining bytes it returns Eof.
C7_Original ==
    [][/\ C7a
       /\ (DecodedEof /\ Concrete /\ AfterFramePlusOne) => last'.ret = DataRemains
       /\ C7c]_vars

\* C7 amended: (a) and (c) as claimed; (b) holds for the decoders of width >= 2; for
\* the one-byte decoders U8, I8 and Bool the trailing byte is itself a whole input,
\* so the further decode_eof returns its value (Fatal for a Bool byte other than 0 or
\* 1) and a value leaves the region empty.
C7_EofBoundary ==
    [][/\ C7a
       /\ (DecodedEof /\ Concrete /\ AfterFramePlusOne) =>
             IF TypeWidth(dec.kind) >= 2
             THEN last'.ret = DataRemains /\ src' = src
             ELSE /\ last'.ret.tag = IF StartsWithFrame(src) THEN "Ok" ELSE "Fatal"
                  /\ last'.ret.tag = "Ok" => src' = <<>>
       /\ C7c]_vars

\* a U16 decoder returned a value from three bytes, and the further decode_eof on
\* the byte that was left returned DataRemains
C7_Witness ==
    /\ dec.kind = "U16" /\ prev = [op |-> "decode_eof", tag |-> "Ok"]
    /\ last.op = "decode_eof" /\ last.ret = DataRemains /\ Len(src) = 1

\* C8: the Bool decoder, under either byte order, on a non-empty region: first byte
\* 0x00 yields false and 0x01 yields true, each consuming exactly one byte; every
\* other first byte yields Fatal, returned as an error value.
C8_BoolValidity ==
    [][(Decoded /\ dec.kind = "Bool" /\ Len(src) >= 1) =>
        /\ src[1] = 0 => last'.ret = Ok(FALSE) /\ src' = Tail(src)
        /\ src[1] = 1 => last'.ret = Ok(TRUE) /\ src' = Tail(src)
        /\ src[1] \in 2..255 => last'.ret.tag = "Fatal"]_vars

\* a Bool decoder rejected the byte 0xFF
C8_Witness ==
    /\ last.op = "decode" /\ dec.kind = "Bool" /\ last.ret.tag = "Fatal"
    /\ Len(src) >= 1 /\ src[1] = 255

\* C9: the Char decoder on a region of at least 4 bytes reads the first 4 bytes as a
\* u32 in its byte order; it returns the char and consumes exactly 4 bytes when that
\* value is a Unicode scalar value, and returns Fatal for every other value.
C9_CharValidity ==
    [][(Decoded /\ dec.kind = "Char" /\ Len(src) >= 4) =>
        IF IsScalar(src, dec.byte_order)
        THEN /\ last'.ret = Ok([ty |-> "char", cp |-> Low24(src, dec.byte_order)])
             /\ src' = SubSeq(src, 5, Len(src))
        ELSE last'.ret.tag = "Fatal"]_vars

\* a little-endian Char decoder read 0x41 0x00 0x00 0x00 as 'A'
C9_Witness ==
    /\ last.op = "decode" /\ dec = [kind |-> "Char", byte_order |-> "Little"]
    /\ last.ret = Ok([ty |-> "char", cp |-> 65])
    /\ prev.op = "new"

\* C10: Bool and Char advance the caller's region only when they return a value; when
\* they return Fatal the region has the length and contents it had before the call.
C10_FatalLeavesRegion ==
    [][(last'.op \in {"decode", "decode_eof"} /\ dec.kind \in {"Bool", "Char"}) =>
        /\ last'.ret.tag = "Fatal" => src' = src
        /\ src' # src => last'.ret.tag = "Ok"]_vars

\* a big-endian Char decoder rejected the surrogate 0xD800, which is still in front
C10_Witness ==
    /\ last.op = "decode" /\ dec = [kind |-> "Char", byte_order |-> "Big"]
    /\ last.ret.tag = "Fatal"
    /\ Len(src) >= 4 /\ SubSeq(src, 1, 4) = <<0, 0, 216, 0>>

-----------------------------------------------------------------------------
(* Properties of a decoder that is fed byte by byte. *)

\* the step is a decode call that retries after an Incomplete with a known need
RetryAfterIncomplete ==
    /\ Concrete /\ last.op = "decode" /\ last.ret.tag = "Incomplete"
    /\ last.ret.needed.tag = "Known"
    /\ last'.op = "decode" /\ fed' = 0

\* C11: if a fixed-width decoder returned Incomplete{needed: Known(k)} on a region,
\* then on that region extended by j further bytes decode returns
\* Incomplete{needed: Known(k - j)} for every j < k, and for every j >= k it does not
\* return Incomplete: a value for the integer and float decoders, a value or Fatal
\* for Bool and Char.
C11_NeededIsMinimal ==
    [][RetryAfterIncomplete =>
        LET k == last.ret.needed.n
            j == fed
        IN  IF j < k THEN last'.ret = Incomplete(Known(k - j)) /\ src' = src
            ELSE IF dec.kind \in DefineKinds THEN last'.ret.tag = "Ok"
            ELSE last'.ret.tag \in {"Ok", "Fatal"}]_vars

\* a U32 decoder was two bytes short, one byte arrived, and the retry is one byte short
C11_Witness ==
    /\ dec.kind = "U32" /\ last.op = "decode" /\ prev = [op |-> "decode", tag |-> "Incomplete"]
    /\ last.ret = Incomplete(Known(1)) /\ Len(src) = 3 /\ fed = 0

\* C16: for every concrete decoder hint() returns Known(byte width of the decoded
\* type), 1 for Bool and 4 for Char, never Unknown, whatever decode / decode_eof
\* attempts came before it and however they ended.
C16_HintIsWidth ==
    (Concrete /\ last.op = "hint") =>
        /\ last.ret = Known(TypeWidth(dec.kind))
        /\ last.ret # Unknown
        /\ dec.kind = "Bool" => last.ret = Known(1)
        /\ dec.kind = "Char" => last.ret = Known(4)

\* a Char decoder is asked for its hint after a decode that ended in Fatal
C16_Witness ==
    /\ dec.kind = "Char" /\ last.op = "hint" /\ last.ret = Known(4)
    /\ prev = [op |-> "decode", tag |-> "Fatal"] /\ Len(src) = 4

\* the runtime Endian value a byte order stands for
RuntimeOrder(byte_order) ==
    CASE byte_order = "LittleEndian" -> "Little"
      [] byte_order = "BigEndian" -> "Big"
      [] byte_order \in {"NativeEndian", "()"} ->
            IF target = "little" THEN "Little" ELSE "Big"
      [] OTHER -> byte_order

\* C17: a decoder configured with a marker byte order decodes as one configured with
\* the corresponding runtime Endian value: LittleEndian as Endian::Little, BigEndian
\* as Endian::Big, NativeEndian, () and Endian::default() as Endian::NATIVE; the
\* outcome and the remaining region are the same for every input region.
C17_MarkersDecodeAsRuntime ==
    [][(Concrete /\ fed' = 0 /\ last'.op \in {"decode", "decode_eof"}) =>
        LET runtime == decode([dec EXCEPT !.byte_order = RuntimeOrder(dec.byte_order)], src)
            native == decode([dec EXCEPT !.byte_order = RuntimeOrder("NativeEndian")], src)
            expected == IF last'.op = "decode" THEN runtime ELSE decode_eof(runtime)
        IN  /\ RuntimeOrder(dec.byte_order) \in Endian
            /\ last'.inner = runtime.ret
            /\ last'.ret = expected.ret
            /\ src' = expected.src
            /\ decode([dec EXCEPT !.byte_order = Endian_default], src) = native]_vars

\* on a big-endian target a U16 decoder with NativeEndian read 01 02 as 0x0102
C17_Witness ==
    /\ dec = [kind |-> "U16", byte_order |-> "NativeEndian"] /\ target = "big"
    /\ last.op = "decode" /\ last.ret.tag = "Ok" /\ last.ret.value.limbs = <<258>>
    /\ src = <<>> /\ pending = <<2>>

-----------------------------------------------------------------------------
(* Properties of the pure functions. *)

\* the number is zero
IsZero(v) == \A j \in DOMAIN v.limbs : v.limbs[j] = 0

\* C12: for every Primitive type (integers, NonZero integers, float bit patterns,
\* bool, char, unit), both byte orders and every value v, try_from_bytes of
\* to_bytes(v, e) under the same e is Ok(v); floats are compared by their bits.
C12_RoundTrip ==
    prim.fn = "to_bytes" =>
        /\ Len(prim.bytes) = BYTE_LEN(prim.ty)
        /\ prim.back = Ok(prim.value)

\* the i16 -32768 went through its big-endian bytes 80 00 and came back
C12_Witness ==
    /\ prim.fn = "to_bytes" /\ prim.ty = "i16" /\ prim.endian = "Big"
    /\ prim.value.limbs = <<-32768>> /\ prim.bytes = <<128, 0>>
    /\ prim.back.tag = "Ok"

\* C13: from_zeroable(v) and to_nonzero(v) return Err(NonZeroError(v)) exactly when
\* v = 0 (the error carries 0) and Ok otherwise; to_zeroable and from_nonzero never
\* fail; from_zeroable(to_zeroable(n)) = Ok(n), and to_zeroable(from_zeroable(v)) = v
\* for v # 0.
C13_NonZeroConversions ==
    /\ prim.fn = "from_zeroable" =>
        /\ prim.to_nonzero = prim.ret
        /\ IF IsZero(prim.value)
           THEN /\ prim.ret = Err([ty |-> "NonZeroError", value |-> prim.value])
                /\ IsZero(prim.ret.error.value)
           ELSE /\ prim.ret.tag = "Ok"
                /\ prim.ret.value.ty = NonZeroOf(prim.ty)
                /\ ~IsZero(prim.ret.value)
                /\ prim.back = <<prim.value>>
    /\ prim.fn = "to_zeroable" =>
        /\ prim.ret.ty = Zeroable(prim.ty)
        /\ prim.ret.limbs = prim.value.limbs
        /\ prim.from_nonzero = prim.ret
        /\ prim.back = Ok(prim.value)

\* from_zeroable refused the u64 zero
C13_Witness ==
    /\ prim.fn = "from_zeroable" /\ prim.ty = "u64" /\ prim.ret.tag = "Err"
    /\ prim.value.limbs = <<0, 0, 0>>

\* the bytes of a number in the byte order e, digit by digit
DigitsOf(v, w, e) ==
    [i \in 1..w |-> DigitOf(v, IF e = "Little" THEN i - 1 ELSE w - i)]

\* C14: NonZero::to_bytes(n, e) is byte for byte the zeroable type's
\* to_bytes(to_zeroable(n), e); NonZero::try_from_bytes(b, e) is Ok(n) with
\* to_zeroable(n) = T::from_bytes(b, e) when that is nonzero, and
\* Err(NonZeroError(0)) exactly when every byte of b is zero.
C14_NonZeroBytes ==
    /\ (prim.fn = "to_bytes" /\ prim.ty \in NonZeroTypes) =>
        /\ prim.bytes = to_bytes(Zeroable(prim.ty), to_zeroable(prim.value), prim.endian)
        /\ prim.bytes = DigitsOf(prim.value, BYTE_LEN(prim.ty), prim.endian)
    /\ (prim.fn = "try_from_bytes" /\ prim.ty \in NonZeroTypes) =>
        LET z == from_bytes(Zeroable(prim.ty), prim.bytes, prim.endian)
        IN  IF \A i \in DOMAIN prim.bytes : prim.bytes[i] = 0
            THEN prim.ret = Err([ty |-> "NonZeroError", value |-> z]) /\ IsZero(z)
            ELSE /\ prim.ret.tag = "Ok"
                 /\ prim.ret.value.ty = prim.ty
                 /\ to_zeroable(prim.ret.value) = z

\* four zero bytes were refused as a NonZero<i32>
C14_Witness ==
    /\ prim.fn = "try_from_bytes" /\ prim.ty = "NonZero<i32>"
    /\ prim.bytes = <<0, 0, 0, 0>> /\ prim.ret.tag = "Err"

\* C15: Size::new(0) is Unknown and Size::new(n) is Known(n) for n > 0; Size::map(f)
\* returns Unknown on Unknown without consulting f, Unknown when f returns 0 and
\* Known(f(n)) otherwise, so no sequence of new and map produces Known(0); Needed
\* behaves identically.
C15_SizeNeverZero ==
    /\ prim.fn \in {"Size::new", "Needed::new"} =>
        prim.ret = IF prim.arg = 0 THEN [tag |-> "Unknown"]
                   ELSE [tag |-> "Known", n |-> prim.arg]
    /\ prim.fn \in {"Size::map", "Needed::map"} =>
        IF prim.self.tag = "Unknown"
        THEN prim.ret = [tag |-> "Unknown"] /\ prim.consulted = <<>>
        ELSE /\ prim.consulted = <<prim.self.n>>
             /\ prim.ret = IF prim.f[prim.self.n] = 0 THEN [tag |-> "Unknown"]
                            ELSE [tag |-> "Known", n |-> prim.f[prim.self.n]]
    /\ prim.fn \in {"Size::new", "Size::map", "Needed::new", "Needed::map"} =>
        (prim.ret.tag = "Known" => prim.ret.n > 0)

\* a closure that returns 0 for 2 mapped Known(2) to Unknown
C15_Witness ==
    /\ prim.fn = "Size::map" /\ prim.self = Known(2) /\ prim.f[2] = 0
    /\ prim.f[1] = 1 /\ prim.ret = Unknown

\* C22: try_from_bytes never fails for the plain integers and floats; for bool it
\* returns Err(BoolError(b)) with the offending byte exactly when the byte is not 0
\* or 1, whatever the byte order; for char it returns Err(CharError(v)) with the
\* order-decoded u32 exactly when v is not a Unicode scalar value.
C22_TryFromBytesErrors ==
    prim.fn = "try_from_bytes" =>
        /\ prim.ty \in IntTypes \cup FloatTypes =>
            /\ prim.ret.tag = "Ok"
            /\ InRange(prim.ret.value, prim.ty, BYTE_LEN(prim.ty))
        /\ prim.ty = "bool" =>
            /\ prim.bytes[1] \in {0, 1} => prim.ret = Ok(prim.bytes[1] = 1)
            /\ prim.bytes[1] \notin {0, 1} =>
                    prim.ret = Err([ty |-> "BoolError", value |-> prim.bytes[1]])
            /\ \A e \in Endian : try_from_bytes("bool", prim.bytes, e) = prim.ret
        /\ prim.ty = "char" =>
            IF IsScalar(prim.bytes, prim.endian)
            THEN prim.ret = Ok([ty |-> "char", cp |-> Low24(prim.bytes, prim.endian)])
            ELSE /\ prim.ret.tag = "Err"
                 /\ prim.ret.error.ty = "CharError"
                 /\ prim.ret.error.value.ty = "u32"
                 /\ prim.ret.error.value.limbs =
                        <<Low24(prim.bytes, prim.endian), TopByte(prim.bytes, prim.endian)>>

\* the little-endian bytes of the surrogate 0xD800 were refused as a char
C22_Witness ==
    /\ prim.fn = "try_from_bytes" /\ prim.ty = "char" /\ prim.endian = "Little"
    /\ prim.bytes = <<0, 216, 0, 0>> /\ prim.ret.tag = "Err"
    /\ prim.ret.error.value.limbs = <<55296, 0>>

\* the other byte order
Other(e) == IF e = "Little" THEN "Big" ELSE "Little"

\* the unsigned integer type of the same width
Unsigned(ty) ==
    CASE ty = "i8" -> "u8" [] ty = "i16" -> "u16" [] ty = "i32" -> "u32"
      [] ty = "i64" -> "u64" [] ty = "i128" -> "u128" [] ty = "isize" -> "usize"
      [] OTHER -> ty

\* the limbs of v mod 2^(8 w)
ModWidth(v, w) ==
    LET n == Len(v.limbs)
    IN  [j \in 1..n |-> IF j = n THEN v.limbs[j] % Pow256(w - 3 * (n - 1)) ELSE v.limbs[j]]

\* C24: integer encodings follow the chosen order and two's complement:
\* to_bytes(v, Little) has the least significant byte first and is the reversal of
\* to_bytes(v, Big); from_bytes(b, Little) = from_bytes(reverse(b), Big); a signed v
\* of width w encodes as the unsigned encoding of v mod 2^w (the i8 byte 0xFF
\* decodes to -1).
C24_TwosComplement ==
    /\ (prim.fn = "to_bytes" /\ prim.ty \in IntTypes) =>
        LET w == BYTE_LEN(prim.ty)
        IN  /\ prim.bytes = DigitsOf(prim.value, w, prim.endian)
            /\ to_bytes(prim.ty, prim.value, Other(prim.endian)) = Reverse(prim.bytes)
            /\ from_bytes(Unsigned(prim.ty), prim.bytes, prim.endian).limbs
                    = ModWidth(prim.value, w)
    /\ (prim.fn = "try_from_bytes" /\ prim.ty \in IntTypes) =>
        /\ prim.ret = Ok(from_bytes(prim.ty, Reverse(prim.bytes), Other(prim.endian)))
        /\ ModWidth(prim.ret.value, BYTE_LEN(prim.ty))
                = from_bytes(Unsigned(prim.ty), prim.bytes, prim.endian).limbs
        /\ (prim.ty = "i8" /\ prim.bytes = <<255>>) => prim.ret.value.limbs = <<-1>>

\* the i8 byte 0xFF was decoded to -1
C24_Witness ==
    /\ prim.fn = "try_from_bytes" /\ prim.ty = "i8" /\ prim.bytes = <<255>>
    /\ prim.ret = Ok([ty |-> "i8", limbs |-> <<-1>>])

\* C27: to_inverse and `!` map Little to Big and Big to Little, so inverting twice
\* is the identity and an order never equals its inverse; exactly one of is_little /
\* is_big holds; is_native(e) holds exactly when e = Endian::NATIVE, and
\* Endian::default() = Endian::NATIVE.
C27_EndianAlgebra ==
    prim.fn = "Endian" =>
        LET native == IF target = "little" THEN "Little" ELSE "Big"
        IN  /\ prim.to_inverse = (IF prim.e = "Little" THEN "Big" ELSE "Little")
            /\ prim.not = prim.to_inverse
            /\ prim.twice = prim.e
            /\ prim.to_inverse # prim.e
            /\ prim.is_little # prim.is_big
            /\ prim.is_little <=> prim.e = "Little"
            /\ prim.is_native <=> prim.e = native
            /\ prim.default = native

\* on a big-endian target Endian::Big is the native order
C27_Witness ==
    /\ prim.fn = "Endian" /\ prim.e = "Big" /\ target = "big"
    /\ prim.is_native /\ prim.is_big /\ prim.to_inverse = "Little"

-----------------------------------------------------------------------------
(* The decoders against the primitive codec, and their statelessness. *)

\* the Primitive type a concrete decoder yields
ItemOf(kind) ==
    CASE kind = "Bool" -> "bool" [] kind = "Char" -> "char" [] OTHER -> TypeOf(kind)

\* C23: each concrete decoder agrees with the primitive codec: for every byte order
\* and every region at least as long as the type's width, the decoder returns the
\* value v exactly when try_from_bytes on the first width bytes under the same order
\* returns Ok(v), and Fatal exactly when the codec returns Err.
C23_DecoderAgreesWithCodec ==
    [][(Decoded /\ Concrete /\ Len(src) >= TypeWidth(dec.kind)) =>
        LET codec == try_from_bytes(ItemOf(dec.kind), SubSeq(src, 1, TypeWidth(dec.kind)),
                                    dec.byte_order)
        IN  /\ last'.ret.tag \in {"Ok", "Fatal"}
            /\ codec.tag = "Ok" <=> last'.ret.tag = "Ok"
            /\ codec.tag = "Err" <=> last'.ret.tag = "Fatal"
            /\ codec.tag = "Ok" => last'.ret = Ok(codec.value)]_vars

\* a big-endian Char decoder and the char codec both took 00 00 00 41 for 'A'
C23_Witness ==
    /\ dec = [kind |-> "Char", byte_order |-> "Big"] /\ last.op = "decode"
    /\ last.ret = Ok([ty |-> "char", cp |-> 65])
    /\ try_from_bytes("char", <<0, 0, 0, 65>>, "Big") = last.ret
    /\ prev.op = "new"

\* C28: concrete decoders are stateless and deterministic: decode never changes the
\* decoder's byte_order, its outcome and the region it leaves depend only on the
\* decoder and the region, and after a Fatal or Incomplete outcome a repeated decode
\* on the unchanged region returns the same Fatal or Incomplete again.
C28_Stateless ==
    [][/\ Concrete => dec' = dec
       /\ (Decoded /\ Concrete) =>
            /\ last'.ret = decode(dec', src).ret
            /\ src' = decode(dec', src).src
       /\ (Decoded /\ Concrete /\ last.op = "decode"
             /\ last.ret.tag \in {"Fatal", "Incomplete"}) =>
            /\ last'.ret = last.ret
            /\ src' = src]_vars

\* a Bool decoder was asked again after a Fatal and answered Fatal again
C28_Witness ==
    /\ dec.kind = "Bool" /\ last.op = "decode" /\ last.ret.tag = "Fatal"
    /\ prev = [op |-> "decode", tag |-> "Fatal"] /\ src = <<255, 2>>

-----------------------------------------------------------------------------
(* The decode_eof loop. *)

\* what holds at every turn of the loop
DrainInvariant ==
    LET w == TypeWidth(dec.kind)
        n == Len(loop.input)
    IN  /\ w >= 1
        /\ Len(src) = n - w * loop.produced
        /\ src = SubSeq(loop.input, w * loop.produced + 1, n)
        /\ loop.produced <= n \div w
        /\ loop.done =>
            /\ last.op = "decode_eof"
            /\ last.ret.tag \in {"Eof", "DataRemains", "Fatal"}
            /\ dec.kind \in DefineKinds =>
                /\ loop.produced = n \div w
                /\ last.ret = IF n % w = 0 THEN Eof ELSE DataRemains

\* C30: for every concrete decoder and every finite region, the loop that calls
\* decode_eof on the region until it returns an error terminates: each success
\* shrinks the region by the decoder's width, so at most floor(length / width) values
\* are produced before Eof, DataRemains or Fatal; for the integer and float decoders
\* exactly floor(length / width) values, followed by Eof when the width divides the
\* length and by DataRemains otherwise.
C30_DrainTerminates == []DrainInvariant /\ <>loop.done

\* a U16 decoder drained five bytes: two values, then DataRemains
C30_Witness ==
    /\ dec.kind = "U16" /\ Len(loop.input) = 5 /\ loop.produced = 2 /\ loop.done
    /\ last.ret = DataRemains /\ Len(src) = 1

-----------------------------------------------------------------------------
(* Properties of the reads from a byte slice. *)

\* the step is a read of a primitive
Reading == prim'.fn \in {"read", "read_with"}

\* the byte order a read decodes under: its context, or the native order
OrderOfRead == IF prim'.fn = "read_with" THEN prim'.endian
               ELSE IF target = "little" THEN "Little" ELSE "Big"

\* a successful read takes exactly the first BYTE_LEN bytes of the slice and
\* returns what they decode to under the order of the read
SequentialRead ==
    Reading =>
        LET w == BYTE_LEN(prim'.ty)
        IN  /\ prim'.ret.tag = "Ok" =>
                /\ Len(src) >= w
                /\ src' = SubSeq(src, w + 1, Len(src))
                /\ prim'.ret = try_from_bytes(prim'.ty, SubSeq(src, 1, w), OrderOfRead)
            /\ Len(src) < w => (prim'.ret.tag = "Err" /\ src' = src)

\* the four bytes, most significant first, are the bits of an f32 NaN
IsNaNBigEndian(b) ==
    /\ b[1] % 128 = 127 /\ b[2] >= 128
    /\ (b[2] % 128) + b[3] + b[4] > 0

\* the f32 is a NaN: exponent all ones, mantissa not zero
IsNaN(v) ==
    /\ v.limbs[2] % 128 = 127
    /\ v.limbs[1] > 8388608

\* C21: reads through the Buffer trait on a byte slice are sequential: each
\* successful read advances the slice by exactly the primitive's byte length, and
\* read::<T>() decodes under the native order; in particular, on a slice holding the
\* big-endian bytes of a NaN f32 followed by the little-endian bytes of a char's code
\* point, read::<f32>() returns a NaN and the following
\* read_with::<char>(Endian::Little) returns that char.
C21_SequentialReads ==
    [][/\ SequentialRead
       /\ (Reading /\ prim'.fn = "read" /\ prim'.ty = "f32"
             /\ Len(src) >= 4 /\ IsNaNBigEndian(src)) =>
            (prim'.ret.tag = "Ok" /\ IsNaN(prim'.ret.value))
       /\ (Reading /\ prim.fn = "read" /\ prim.ty = "f32" /\ prim.ret.tag = "Ok"
             /\ prim'.fn = "read_with" /\ prim'.ty = "char" /\ prim'.endian = "Little"
             /\ Len(src) >= 4 /\ IsScalar(src, "Little")) =>
            prim'.ret = Ok([ty |-> "char", cp |-> Low24(src, "Little")])]_vars

-----------------------------------------------------------------------------
(* Properties of the byte-slice Buffer and of the errors of a read. *)

\* C32: on a byte slice, try_advance(cnt) and try_copy_to_slice(dst) fail exactly
\* when cnt (resp. dst.len()) exceeds remaining(), and then leave the slice and dst
\* as they were; on success the slice loses exactly its first cnt (resp. dst.len())
\* bytes and dst holds a copy of them; remaining() equals chunk().len().
C32_SliceBuffer ==
    [][/\ remaining(src) = Len(chunk(src))
       /\ prim'.fn = "try_advance" =>
            IF prim'.cnt > remaining(src)
            THEN prim'.ret # "Ok" /\ src' = src
            ELSE prim'.ret = "Ok" /\ src' = SubSeq(src, prim'.cnt + 1, Len(src))
       /\ prim'.fn = "try_copy_to_slice" =>
            IF Len(prim'.dst) > remaining(src)
            THEN prim'.ret # "Ok" /\ src' = src /\ prim'.slice = prim'.dst
            ELSE /\ prim'.ret = "Ok"
                 /\ src' = SubSeq(src, Len(prim'.dst) + 1, Len(src))
                 /\ prim'.slice = SubSeq(src, 1, Len(prim'.dst))]_vars

\* a failed try_copy_to_slice into three bytes, on a slice that still holds two
C32_Witness ==
    /\ prim.fn = "try_copy_to_slice" /\ prim.ret # "Ok" /\ prim.slice = prim.dst
    /\ Len(src) = 2 /\ Len(prim.dst) = 3

\* the bytes are not a value of the type under the byte order: a bool byte other
\* than 0 and 1, a char that is no Unicode scalar value, a zero for a NonZero type
InvalidFor(ty, bytes, e) ==
    CASE ty = "bool" -> bytes[1] \notin {0, 1}
      [] ty = "char" -> ~IsScalar(bytes, e)
      [] ty \in NonZeroTypes -> \A i \in 1..Len(bytes) : bytes[i] = 0
      [] OTHER -> FALSE

\* C33: a primitive read from a byte slice that holds fewer than BYTE_LEN bytes
\* returns a Buffer error and leaves the slice unchanged; a read of at least
\* BYTE_LEN bytes that are invalid for the type returns a Primitive error and has
\* nevertheless advanced the slice by exactly BYTE_LEN bytes.
C33_ReadErrors ==
    [][Reading =>
        LET w == BYTE_LEN(prim'.ty)
        IN  IF Len(src) < w
            THEN /\ prim'.ret.tag = "Err" /\ prim'.ret.error.ty = "Buffer"
                 /\ src' = src
            ELSE InvalidFor(prim'.ty, SubSeq(src, 1, w), OrderOfRead) =>
                    /\ prim'.ret.tag = "Err" /\ prim'.ret.error.ty = "Primitive"
                    /\ src' = SubSeq(src, w + 1, Len(src))]_vars

\* a read of a char that rejected the first four of eight bytes and consumed them
C33_Witness ==
    /\ prim.fn = "read_with" /\ prim.ty = "char"
    /\ prim.ret.tag = "Err" /\ prim.ret.error.ty = "Primitive"
    /\ Len(src) = 4

\* C34: every error returned by a primitive read with an explicit order,
\* read_with(endian), reports that same order through ReadPrimitiveError::endian()
\* and ReadError::context(), in the Primitive and in the Buffer variant and for
\* both orders.
C34_ErrorReportsOrder ==
    [][(prim'.fn = "read_with" /\ prim'.ret.tag = "Err") =>
        /\ ReadPrimitiveError_endian(prim'.ret.error) = prim'.endian
        /\ context(prim'.ret.error) = [some |-> TRUE, value |-> prim'.endian]]_vars

-----------------------------------------------------------------------------
(* A stream that arrives in fragments: ReadBuf and decoder together. *)

\* the streams that arrive in fragments: MaxFrames frames of the decoder and
\* MaxExtra further bytes; after its first frame a stream goes on with the byte 2,
\* and for the decoders that can reject a frame also with the first frame again
FragmentStreams(kind) ==
    LET w == Width(kind)
    IN  {Region(SubSeq(s, 1, w), t, MaxFrames * w + MaxExtra) :
            s \in Streams(kind),
            t \in IF kind \in {"Bool", "Char"} THEN Tails ELSE {<<2>>}}

\* a program that constructs a concrete decoder and a ReadBuf that can hold the
\* whole stream, and runs
\*     for fragment in fragments {
\*         buf.try_push_slice(fragment)?;
\*         let mut src = &buf.filled()[consumed..];
\*         loop { match decoder.decode(&mut src) {
\*             Ok(v) => values.push(v), Incomplete(_) => break, end => return end } }
\*         consumed = buf.filled().len() - src.len();
\*     }
InitFragment ==
    /\ dec \in [kind : ConcreteKinds, byte_order : Endian]
    /\ pending \in FragmentStreams(dec.kind)
    /\ loop = [input |-> pending, values |-> <<>>, end |-> [tag |-> "None"],
               phase |-> "push"]
    /\ \/ FromUninit([i \in 1..Len(pending) |-> Uninit]) /\ rb_last = NoCall("from_uninit")
       \/ New([i \in 1..(Len(pending) + 1) |-> 0]) /\ rb_last = NoCall("new")
    /\ src = <<>>
    /\ last = NoDecode
    /\ prev = Brief(NoDecode)
    /\ fed = 0
    /\ target = "little"
    /\ prim = NoPrim
    /\ build = "release"
    /\ status = "ok"

\* the next fragment, of any length, is pushed and the region becomes the part of
\* filled() that no decode has consumed
PushFragment ==
    /\ status = "ok"
    /\ loop.phase = "push"
    /\ pending # <<>>
    /\ \E n \in 0..Len(pending) :
        LET fragment == SubSeq(pending, 1, n)
            consumed == filled - Len(src)
            r == try_push_slice(Self, fragment)
        IN  /\ rb_last' = [op |-> "try_push_slice", arg |-> 0, slice |-> fragment,
                           ret |-> r.ret]
            /\ buf' = r.self.buf
            /\ init' = r.self.init
            /\ IF r.ret = "assert" /\ build = "release"
               THEN /\ status' = "ub"
                    /\ filled' \in Usize
               ELSE /\ status' = IF r.ret = "assert" THEN "panic" ELSE "ok"
                    /\ filled' = r.self.filled
            /\ IF r.ret = "Ok"
               THEN /\ src' = SubSeq(filled_bytes(r.self), consumed + 1, r.self.filled)
                    /\ pending' = SubSeq(pending, n + 1, Len(pending))
                    /\ fed' = fed + n
                    /\ loop' = [loop EXCEPT !.phase = "decode"]
               ELSE /\ loop' = [loop EXCEPT !.phase = "error"]
                    /\ UNCHANGED <<src, pending, fed>>
            /\ UNCHANGED <<dec, last, prev, target, prim, build>>

\* one decode over the region: a value is yielded, Incomplete waits for the next
\* fragment, anything else ends the run
DecodeFragment ==
    /\ status = "ok"
    /\ loop.phase = "decode"
    /\ \E r \in DecodeOutcomes(dec, src) :
        /\ src' = r.src
        /\ last' = [op |-> "decode", inner |-> r.ret, ret |-> r.ret]
        /\ prev' = Brief(last)
        /\ fed' = 0
        /\ loop' = CASE r.ret.tag = "Ok" ->
                          [loop EXCEPT !.values = Append(@, r.ret.value)]
                     [] r.ret.tag = "Incomplete" -> [loop EXCEPT !.phase = "push"]
                     [] OTHER -> [loop EXCEPT !.phase = "fatal", !.end = r.ret]
        /\ UNCHANGED <<dec, pending, target>>
        /\ UNCHANGED <<rbvars, prim>>

NextFragment ==
    \/ PushFragment
    \/ DecodeFragment

\* fragments pushed into a ReadBuf and decoded as they arrive
SpecFragment == InitFragment /\ [][NextFragment]_vars

\* what decoding a whole region yields: the values up to the first outcome that
\* is not Ok, and that outcome
RECURSIVE DecodeAll(_, _)
DecodeAll(d, region) ==
    LET o == decode(d, region)
    IN  IF o.ret.tag # "Ok" THEN [values |-> <<>>, end |-> o.ret]
        ELSE LET more == DecodeAll(d, o.src)
             IN  [values |-> <<o.ret.value>> \o more.values, end |-> more.end]

\* the bytes of the stream pushed so far
Pushed == SubSeq(loop.input, 1, Len(loop.input) - Len(pending))

\* C31: fragmentation does not change the result: however the stream is split
\* into fragments, every push into the ReadBuf succeeds, and whenever the driver
\* waits for the next fragment or has ended, the values it has yielded (and the
\* Fatal, if any) are exactly those of decoding, as one region, all the bytes
\* pushed so far; a run that ended with Fatal yields what decoding the whole
\* stream as one region yields.
C31_Fragmentation ==
    /\ status = "ok" /\ loop.phase \in {"push", "decode", "fatal"}
    /\ filled_bytes(Self) = Pushed
    /\ loop.phase \in {"push", "fatal"} =>
        LET whole == DecodeAll(dec, Pushed)
        IN  /\ loop.values = whole.values
            /\ IF loop.phase = "fatal"
               THEN loop.end = whole.end /\ whole.end.tag = "Fatal"
               ELSE whole.end.tag = "Incomplete"
    /\ loop.phase = "fatal" =>
        /\ loop.values = DecodeAll(dec, loop.input).values
        /\ loop.end = DecodeAll(dec, loop.input).end
    /\ (loop.phase = "push" /\ pending = <<>>) =>
        /\ loop.values = DecodeAll(dec, loop.input).values
        /\ DecodeAll(dec, loop.input).end.tag = "Incomplete"

\* a stream of two U16 frames and a byte that arrived in three fragments, each
\* ending inside a frame, and yielded both values
C31_Witness ==
    /\ dec.kind = "U16" /\ pending = <<>> /\ loop.phase = "push"
    /\ Len(loop.values) = 2 /\ Len(src) = 1
    /\ rb_last.op = "try_push_slice" /\ Len(rb_last.slice) = 2
    /\ prev.tag = "Ok"

====
